---------------------------- MODULE Spec2Model ----------------------------
(***************************************************************************)
(* The response-streaming bridge of the repository: the chatgpt-adapter    *)
(* relay (web_claude adapter, ClaudeClient, BrowserManager) and the        *)
(* ai-web-integration-agent API server (Server, ClaudeAgent, Session).     *)
(* The two are separate programs; `path` says which one a behaviour runs.  *)
(*                                                                         *)
(* A request r owns up to three threads of control:                        *)
(*   hpc[r]  the HTTP handler (gin handler / net/http handler),            *)
(*   gpc[r]  the goroutine the streaming handler starts                    *)
(*           (adapter: the StreamMessage goroutine; server: the outer      *)
(*           goroutine of handleStreamingChatCompletion),                  *)
(*   ipc[r]  the server's inner monitoring goroutine.                      *)
(* Unbuffered channels are rendezvous: a sender waits in a "send" position *)
(* and the receiver's action moves both.  The page is an uncontrolled      *)
(* collaborator: every read of its text or of its busy indicator is a      *)
(* nondeterministic choice (a text, or a failure; busy, idle, or failure). *)
(***************************************************************************)
EXTENDS Integers, Sequences, FiniteSets, TLC

VARIABLES
    path,             \* "adapter" | "server": which program runs
    load,             \* the workload: "single" | "shared" | "hello" | "any" | "pooled"
                      \* (see Arrivals), "prompt" (the prompt formatters) or
                      \* "language" (the Copilot editor's language)
    messages,         \* the message list a prompt formatter is given
    prompt,           \* <<formatter, the prompt it returned>>, or <<>>
    sessionCtx,       \* server: Session.ctx, "live" | "expired"
    content,          \* Copilot: the last user message's content / the prompt
    codeContext,      \* Copilot: the code context extracted from it
    language,         \* Copilot: the language passed on with it, <<>> for ""
    editor,           \* Copilot: the Monaco editor's language, text and
                      \* whether the suggestion was triggered
    cpc,              \* Copilot: position in the submission of the context
    langErr,          \* Copilot: setting the editor's language has failed
    clientPool,       \* adapter: api.clientPool, cookie key -> client | None
    clientMu,         \* adapter: holder of api.clientMu | None
    browserManager,   \* adapter: per client, "nil" | "attached" | "closed"
    loadedCookies,    \* adapter: per client, the cookies loaded in its browser
    mu,               \* adapter: per client, holder of ClaudeClient.mu | None
    agentMu,          \* server: per agent, the holder of its mu | None
    cookies,          \* per request: the credential set it carries
    client,           \* per request: the client getOrCreateClient returned
    kind,             \* per request: "chat" | "legacy" (endpoint)
    stream,           \* per request: the stream flag
    request,          \* per request: server, the HTTP request received
    backend,          \* per request: the backend whose code serves it,
                      \* "claude" | "copilot" | None
    hpc,              \* per request: position of the HTTP handler
    gpc,              \* per request: position of the streaming goroutine
    ipc,              \* per request: position of the server's inner goroutine
    disconnected,     \* per request: the caller closed the connection
    deadline,         \* per request: time.Since(startTime) > timeout holds
    lastResponse,     \* per request: monitor's lastResponse / fullResponse
    currentResponse,  \* per request: monitor's currentResponse (last text read)
    lastContent,      \* per request: the handler's lastContent (diff baseline)
    chunk,            \* per request: server, the chunk pending on streamCh
    out,              \* per request: what has been written to the caller
    outcome,          \* per request: how the generation cycle ended
    busy1,            \* per request: result of the last first busy check
    busy2,            \* per request: result of the last confirmation check
    diverged,         \* per request: some read did not extend the one before
    nchanges,         \* per request: number of text changes observed
    observed,         \* per request: the monitor's observations (text, busy
                      \* reading) in order, while they follow the scenario
    callbacks         \* per request: the (text, done) pairs the streaming
                      \* monitor has passed to its callback, in order

vars == <<path, load, messages, prompt, sessionCtx, content, codeContext,
          language, editor, cpc, langErr, clientPool, clientMu, browserManager, loadedCookies, mu,
          agentMu, cookies,
          client, kind, stream, request, backend, hpc, gpc, ipc, disconnected,
          deadline,
          lastResponse, currentResponse, lastContent, chunk, out, outcome,
          busy1, busy2, diverged, nchanges, observed, callbacks>>

\* The variables of one request's threads that most actions leave alone.
editing   == <<content, codeContext, language, editor, cpc, langErr>>
env       == <<path, load, messages, prompt, sessionCtx, editing>>
reqInputs == <<cookies, client, kind, stream, request, backend>>
pools     == <<clientPool, clientMu, browserManager, loadedCookies>>
ghosts    == <<busy1, busy2, diverged, nchanges, observed, callbacks>>

---------------------------------------------------------------------------
(* Bounds *)

MaxLen == 2            \* longest scraped text, one request alone
MaxChanges == 2        \* text changes the page shows within one request
MaxLenShared == 1      \* the same two bounds when two requests run
MaxChangesShared == 1
MaxChangesHello == 3   \* text changes in the scenario workload
MaxMessages == 3       \* longest message list given to a prompt formatter
MaxLines == 2          \* most lines of a Copilot code context

Req == {"r1", "r2"}   \* requests; a client is named after the request
                      \* that created it
None == "none"

Alphabet == {"a", "b"}

RECURSIVE SeqsUpTo(_)
SeqsUpTo(n) ==
    IF n = 0 THEN {<<>>}
    ELSE LET S == SeqsUpTo(n - 1)
         IN  S \cup {Append(s, c) : s \in {x \in S : Len(x) = n - 1}, c \in Alphabet}

\* The workloads: one request alone, with the richer page texts, or two
\* concurrent requests whose page texts are "" and "a"; or one request
\* alone on a page that shows the texts of the "Hello, world" scenario.
\* These three run within the first minutes of the server.  In the workload
\* "any" one request runs alone at any time of the server's life.
\* In the workload "pooled" two concurrent requests reach an adapter whose
\* pool holds the client an earlier, finished request has made.
Arrivals == IF load \in {"shared", "pooled"} THEN Req ELSE {"r1"}

\* The clients: each is named after the request that made it; Earlier is
\* the client of the earlier request, made for EarlierCookies.
Earlier == "r0"
EarlierCookies == {"sessionKey=A"}
Clients == Req \cup {Earlier}

\* The scenario's texts, as sequences of the pieces in which they grow.
Hello      == <<"Hello">>
HelloWor   == <<"Hello", ", wor">>
HelloWorld == <<"Hello", ", wor", "ld">>

Texts ==
    CASE load \in {"single", "any"} -> SeqsUpTo(MaxLen)
      [] load \in {"shared", "pooled"} ->
            {t \in SeqsUpTo(MaxLenShared) : \A i \in 1..Len(t) : t[i] = "a"}
      [] load = "hello"  -> {<<>>, Hello, HelloWor, HelloWorld}

ChangeBound ==
    CASE load \in {"single", "any"} -> MaxChanges
      [] load \in {"shared", "pooled"} -> MaxChangesShared
      [] load = "hello"  -> MaxChangesHello

\* Credential sets a caller may send (name -> value maps, as sets of
\* entries): two callers with one cookie each, and a caller with two.
CookieSets == {{"sessionKey=A"}, {"sessionKey=B"},
               {"sessionKey=A", "cf_clearance=A"}}

---------------------------------------------------------------------------
(* Pure functions *)

IsPrefix(p, s) == Len(p) <= Len(s) /\ SubSeq(s, 1, Len(p)) = p

\* strings.TrimPrefix(s, prefix): s without the prefix when it has it, else s.
TrimPrefix(s, p) == IF IsPrefix(p, s) THEN SubSeq(s, Len(p) + 1, Len(s)) ELSE s

\* A pool key made of the cookies themselves.
generateCookieKey_ByContent(cs) == cs

\* generateCookieKey: "claude_cookies_<len(cookies)>".
generateCookieKey(cs) == Cardinality(cs)

Keys == {generateCookieKey(cs) : cs \in CookieSets}

\* The backends: each is an adapter package of the relay, and an agent of
\* the API server.
Agents == {"claude", "copilot"}

\* The backends that receive requests: the Claude one, or in the workload
\* "any" both.
Backends == IF load = "any" THEN Agents ELSE {"claude"}

\* Model names, as sequences of the pieces that matter to a prefix test.
WebClaude  == <<"web_", "claude">>
WebCopilot == <<"web_", "copilot">>

\* strings.HasPrefix(s, prefix).
HasPrefix(s, prefix) == IsPrefix(prefix, s)

\* The models GET /v1/models lists.
ListedModels ==
    {WebClaude, WebClaude \o <<"/chat">>, WebCopilot, WebCopilot \o <<"/github">>}

ModelNames ==
    ListedModels \cup {<<>>, <<"web_">>, <<"gpt-4">>, <<"claude">>,
                       WebClaude \o <<"-3">>}

\* An HTTP request to a completions endpoint: its method, whether its body
\* decodes, whether its messages (its prompt) are empty, and its model.
NoRequest == [method |-> "none", decodes |-> FALSE, empty |-> TRUE, model |-> <<>>]

Requests ==
    IF load = "any"
    THEN [method : {"POST", "GET"}, decodes : BOOLEAN, empty : BOOLEAN,
          model : ModelNames]
    ELSE {[method |-> "POST", decodes |-> TRUE, empty |-> FALSE,
           model |-> WebClaude]}

\* Validate without the test of len(req.Messages) / req.Prompt.
Validate_SkipsEmpty(rq) ==
    IF rq.method # "POST" THEN "405"
    ELSE IF ~rq.decodes THEN "400"
    ELSE "ok"

\* The validation of handleChatCompletions / handleCompletions: the status
\* of the rejection, or "ok".
Validate(rq) ==
    IF rq.method # "POST" THEN "405"
    ELSE IF ~rq.decodes THEN "400"
    ELSE IF rq.empty THEN "400"
    ELSE "ok"

\* The prefix test for the wrong prefix: any model of the web_ family goes
\* to the Claude agent.
RouteOf_WebFamily(m) ==
    IF HasPrefix(m, <<"web_">>) THEN "claude" ELSE None

\* The agent the handlers select for model m, None when they answer
\* "Unsupported model".
RouteOf(m) ==
    IF HasPrefix(m, WebClaude) THEN "claude"
    ELSE IF HasPrefix(m, WebCopilot) THEN "copilot"
    ELSE None

\* The request context: cancelled when the caller disconnects, and by
\* net/http when the handler has returned.
ctxDone(r) == disconnected[r] \/ hpc[r] = "returned"

\* Envelopes written to the caller.
RoleChunk       == <<"role">>
ContentChunk(t) == <<"content", t>>
FinalChunk      == <<"final", "stop">>
DoneSentinel    == <<"[DONE]">>
ErrorBody       == <<"error">>
HttpError(code) == <<"http.Error", code>>
JsonBody(t)     == <<"json", t>>

Write(r, envs) == out' = [out EXCEPT ![r] = @ \o envs]

\* Messages: <<role, content>>, the content a string of at most one letter.
Roles == {"system", "user", "assistant"}
Contents == {<<>>, <<"a">>, <<"b">>}
Message == Roles \X Contents

RECURSIVE ListsUpTo(_)
ListsUpTo(n) ==
    IF n = 0 THEN {<<>>}
    ELSE LET S == ListsUpTo(n - 1)
         IN  S \cup {Append(l, m) : l \in {x \in S : Len(x) = n - 1}, m \in Message}

MessageLists == ListsUpTo(MaxMessages)

\* strings.Join(parts, sep).
RECURSIVE Join(_, _)
Join(parts, sep) ==
    IF parts = <<>> THEN <<>>
    ELSE IF Len(parts) = 1 THEN parts[1]
    ELSE parts[1] \o sep \o Join(Tail(parts), sep)

\* The content of the first system message instead of the last.
RECURSIVE systemPrompt_First(_)
systemPrompt_First(msgs) ==
    IF msgs = <<>> THEN <<>>
    ELSE IF Head(msgs)[1] = "system" THEN Head(msgs)[2]
    ELSE systemPrompt_First(Tail(msgs))

\* The loop of formatClaudePrompt / formatPrompt: systemPrompt is the content
\* of the last system message, userPrompts the contents of the user messages.
RECURSIVE systemPrompt(_)
systemPrompt(msgs) ==
    IF msgs = <<>> THEN <<>>
    ELSE IF msgs[Len(msgs)][1] = "system" THEN msgs[Len(msgs)][2]
    ELSE systemPrompt(SubSeq(msgs, 1, Len(msgs) - 1))

RECURSIVE userPrompts(_)
userPrompts(msgs) ==
    IF msgs = <<>> THEN <<>>
    ELSE (IF Head(msgs)[1] = "user" THEN <<Head(msgs)[2]>> ELSE <<>>)
            \o userPrompts(Tail(msgs))

\* formatClaudePrompt (API server).
formatClaudePrompt(msgs) ==
    (IF systemPrompt(msgs) # <<>>
     THEN <<"System: ">> \o systemPrompt(msgs) \o <<"\n\n">> ELSE <<>>)
    \o Join(userPrompts(msgs), <<"\n\n">>)

\* formatPrompt (adapter, ClaudeClient).
formatPrompt(msgs) ==
    (IF systemPrompt(msgs) # <<>>
     THEN <<"System: ">> \o systemPrompt(msgs) \o <<"\n\n">> ELSE <<>>)
    \o Join(userPrompts(msgs), <<"\n\n">>)

\* ClaudeClient.formatMessages (adapter, the other ClaudeClient): every
\* message with its role label, then the final "Assistant: ".
RECURSIVE formatMessages(_)
formatMessages(msgs) ==
    IF msgs = <<>> THEN <<"Assistant: ">>
    ELSE (CASE Head(msgs)[1] = "system"    -> <<"System: ">>
            [] Head(msgs)[1] = "user"      -> <<"Human: ">>
            [] Head(msgs)[1] = "assistant" -> <<"Assistant: ">>)
         \o Head(msgs)[2] \o <<"\n\n">> \o formatMessages(Tail(msgs))

---------------------------------------------------------------------------
(* Copilot code contexts: strings as sequences of the pieces that matter to *)
(* the language line and to the language detection                          *)

\* strings.ToLower, on a piece and on a string.
LowerPiece(c) == IF c = "Language:" THEN "language:" ELSE c
ToLower(s) == [i \in 1..Len(s) |-> LowerPiece(s[i])]

\* strings.TrimSpace(s).
RECURSIVE TrimLeft(_)
TrimLeft(s) ==
    IF s # <<>> /\ Head(s) \in {" ", "\n"} THEN TrimLeft(Tail(s)) ELSE s

RECURSIVE TrimRight(_)
TrimRight(s) ==
    IF s # <<>> /\ s[Len(s)] \in {" ", "\n"}
    THEN TrimRight(SubSeq(s, 1, Len(s) - 1)) ELSE s

TrimSpace(s) == TrimRight(TrimLeft(s))

\* strings.Split(s, "\n").
RECURSIVE Split(_)
Split(s) ==
    IF \A i \in 1..Len(s) : s[i] # "\n" THEN <<s>>
    ELSE LET i == CHOOSE k \in 1..Len(s) :
                    s[k] = "\n" /\ \A j \in 1..(k - 1) : s[j] # "\n"
         IN  <<SubSeq(s, 1, i - 1)>> \o Split(SubSeq(s, i + 1, Len(s)))

\* strings.Contains(s, piece), for a piece of the alphabet.
Contains(s, c) == \E i \in 1..Len(s) : s[i] = c

\* strings.Replace(s, old, "", 1): s without the first occurrence of old.
RemoveFirst(s, old) ==
    LET at == {i \in 1..(Len(s) - Len(old) + 1) :
                  SubSeq(s, i, i + Len(old) - 1) = old}
    IN  IF old = <<>> \/ at = {} THEN s
        ELSE LET i == CHOOSE k \in at : \A j \in at : k <= j
             IN  SubSeq(s, 1, i - 1) \o SubSeq(s, i + Len(old), Len(s))

\* The lines a code context is made of: language lines (plain, capitalised
\* and without a space, indented, without a name), code lines that the
\* detection tells apart, and a line that holds the text of a language
\* line without starting with it.
Lines ==
    { <<"language:", " ", "go">>,
      <<"Language:", "python">>,
      <<" ", "language:", " ", "go">>,
      <<"language:">>,
      <<"def ", "x">>,
      <<"func ", "x">>,
      <<"x">>,
      <<"x", " ", "language:", " ", "go">> }

RECURSIVE TextsOfLines(_)
TextsOfLines(n) ==
    IF n = 1 THEN Lines
    ELSE LET S == TextsOfLines(n - 1)
         IN  S \cup {t \o <<"\n">> \o l :
                        t \in {x \in S : Len(Split(x)) = n - 1}, l \in Lines}

\* detectLanguage / CopilotClient.DetectLanguage: the first marker found
\* decides, in the order python, javascript, typescript, java, go, ...; of
\* the markers only "def " and "func " occur in the texts above, and the
\* default is javascript.
detectLanguage(code) ==
    IF Contains(code, "def ") THEN <<"python">>
    ELSE IF Contains(code, "func ") THEN <<"go">>
    ELSE <<"javascript">>

\* The loop over the lines in extractCodeContext / extractLanguageFromPrompt:
\* the first line that, trimmed and lowered, starts with "language:" gives
\* the language (the trimmed rest of the trimmed line), and the first
\* occurrence of the trimmed line is cut out of the text.
RECURSIVE languageLoop(_, _)
languageLoop(text, lines) ==
    IF lines = <<>> THEN <<text, <<>> >>
    ELSE LET line == TrimSpace(Head(lines)) IN
         IF HasPrefix(ToLower(line), <<"language:">>)
         THEN <<RemoveFirst(text, line), TrimSpace(Tail(line))>>
         ELSE languageLoop(text, Tail(lines))

\* setEditorLanguage's Monaco id: the lowered name looked up in languageMap,
\* which maps the names used here to themselves.
MonacoId(l) == ToLower(l)

---------------------------------------------------------------------------
(* Initial state *)

InitWith(w) ==
    /\ path \in (IF w = "pooled" THEN {"adapter"} ELSE {"adapter", "server"})
    /\ load = w
    /\ messages \in (IF w = "prompt" THEN MessageLists ELSE {<<>>})
    /\ prompt = <<>>
    /\ sessionCtx = "live"
    /\ content \in (IF w = "language" THEN TextsOfLines(MaxLines) ELSE {<<>>})
    /\ codeContext = <<>>
    /\ language = <<>>
    /\ editor = [language |-> <<"plaintext">>, text |-> <<>>,
                 triggered |-> FALSE]
    /\ cpc = "new"
    /\ langErr = FALSE
    /\ clientPool = [k \in Keys |->
                       IF w = "pooled" /\ k = generateCookieKey(EarlierCookies)
                       THEN Earlier ELSE None]
    /\ clientMu = None
    /\ browserManager = [c \in Clients |->
                           IF w = "pooled" /\ c = Earlier THEN "attached"
                           ELSE "nil"]
    /\ loadedCookies = [c \in Clients |->
                          IF w = "pooled" /\ c = Earlier THEN EarlierCookies
                          ELSE {}]
    /\ mu = [c \in Clients |-> None]
    /\ agentMu = [a \in Agents |-> None]
    /\ cookies = [r \in Req |-> {}]
    /\ client = [r \in Req |-> None]
    /\ kind = [r \in Req |-> "chat"]
    /\ stream = [r \in Req |-> FALSE]
    /\ request = [r \in Req |-> NoRequest]
    /\ backend = [r \in Req |-> None]
    /\ hpc = [r \in Req |-> "new"]
    /\ gpc = [r \in Req |-> "none"]
    /\ ipc = [r \in Req |-> "none"]
    /\ disconnected = [r \in Req |-> FALSE]
    /\ deadline = [r \in Req |-> FALSE]
    /\ lastResponse = [r \in Req |-> <<>>]
    /\ currentResponse = [r \in Req |-> <<>>]
    /\ lastContent = [r \in Req |-> <<>>]
    /\ chunk = [r \in Req |-> <<>>]
    /\ out = [r \in Req |-> <<>>]
    /\ outcome = [r \in Req |-> "none"]
    /\ busy1 = [r \in Req |-> "none"]
    /\ busy2 = [r \in Req |-> "none"]
    /\ diverged = [r \in Req |-> FALSE]
    /\ nchanges = [r \in Req |-> 0]
    /\ observed = [r \in Req |-> <<>>]
    /\ callbacks = [r \in Req |-> <<>>]

Init == InitWith("single")

InitShared == InitWith("shared")

InitHello == InitWith("hello")

InitPrompt == InitWith("prompt")

InitAny == InitWith("any")

InitPooled == InitWith("pooled")

InitLanguage == InitWith("language")

---------------------------------------------------------------------------
(* The page, as the monitor reads it *)

\* extractSuggestion / ExtractCopilotSuggestion: the ghost text, else the
\* inline suggestion, else a fixed text.
NoSuggestion == <<"No suggestion available">>
Suggestion(t) == IF t # <<>> THEN t ELSE NoSuggestion

\* The texts an extraction by r's backend may return.
PageTexts(r) ==
    IF backend[r] = "copilot" THEN {Suggestion(t) : t \in Texts} ELSE Texts

\* Texts a successful extraction may return: anything, while the bound on
\* observed changes allows a change.
Readable(r) ==
    {t \in PageTexts(r) : t = lastResponse[r] \/ nchanges[r] < ChangeBound}

\* A read of text t by request r's monitor, recorded.
NoteRead(r, t) ==
    /\ currentResponse' = [currentResponse EXCEPT ![r] = t]
    /\ diverged' = [diverged EXCEPT ![r] = @ \/ ~IsPrefix(currentResponse[r], t)]
    /\ nchanges' = [nchanges EXCEPT ![r] = IF t # lastResponse[r] THEN @ + 1 ELSE @]

\* Results of a query of the busy indicator.
BusyReadings == {"busy", "idle", "err"}

\* chromedp.Run(s.ctx, ...) fails once the Session's context is done: what
\* a query of the busy indicator through the Session may return, and the
\* error of a submission that failed.
SessionReadings == IF sessionCtx = "live" THEN BusyReadings ELSE {"err"}
SubmitError == IF sessionCtx = "live" THEN "submitErr" ELSE "sessionExpired"

\* The observations of the "Hello, world" scenario: two texts seen busy, the
\* third seen not busy, and the confirmation seeing the same text, not busy.
ScenarioObservations ==
    << <<Hello, "busy">>, <<HelloWor, "busy">>,
       <<HelloWorld, "idle">>, <<HelloWorld, "idle">> >>

\* Any observation history that is not a beginning of the scenario.
OtherObservations == << <<(<<>>), "other">> >>

\* The monitor of r has made the observation (t, b): the text it holds and
\* the busy reading taken with it.  In the scenario workload the log is kept
\* as long as it is a beginning of the scenario.
Observe(r, t, b) ==
    observed' = [observed EXCEPT ![r] =
                   IF load # "hello" THEN @
                   ELSE IF IsPrefix(Append(@, <<t, b>>), ScenarioObservations)
                        THEN Append(@, <<t, b>>)
                        ELSE OtherObservations]

\* r's streaming monitor invokes callback(t, d); on the API server the inner
\* goroutine sends t on responseCh, or sends on doneCh when d.  The log is
\* kept for a request that runs alone.
Callback(r, t, d) ==
    callbacks' = [callbacks EXCEPT ![r] =
                    IF load \in {"shared", "pooled"} THEN @
                    ELSE Append(@, <<t, d>>)]

---------------------------------------------------------------------------
(* Adapter: api.Completion and api.getOrCreateClient *)

\* api.Completion of the web_claude or of the web_copilot adapter (the two
\* have the same text): a request arrives with its cookies and stream flag.
Completion(r) ==
    /\ path = "adapter"
    /\ r \in Arrivals
    /\ hpc[r] = "new"
    /\ \E cs \in CookieSets, st \in BOOLEAN, b \in Backends :
         /\ cookies' = [cookies EXCEPT ![r] = cs]
         /\ stream' = [stream EXCEPT ![r] = st]
         /\ backend' = [backend EXCEPT ![r] = b]
    /\ hpc' = [hpc EXCEPT ![r] = "getClient"]
    /\ UNCHANGED <<env, pools, mu, agentMu, client, kind, request, gpc, ipc,
                   disconnected, deadline, lastResponse, currentResponse,
                   lastContent, chunk, out, outcome, ghosts>>

\* getOrCreateClient looking up and creating without clientMu.
getOrCreateClient_NoLock(r) ==
    /\ hpc[r] = "getClient"
    /\ LET k == generateCookieKey(cookies[r]) IN
         \/ /\ clientPool[k] # None
            /\ client' = [client EXCEPT ![r] = clientPool[k]]
            /\ hpc' = [hpc EXCEPT ![r] = "dispatch"]
         \/ /\ clientPool[k] = None
            /\ hpc' = [hpc EXCEPT ![r] = "initialize"]
            /\ UNCHANGED client
    /\ UNCHANGED <<env, pools, mu, agentMu, cookies, kind, stream, request, backend,
                   gpc, ipc,
                   disconnected, deadline, lastResponse, currentResponse,
                   lastContent, chunk, out, outcome, ghosts>>

\* getOrCreateClient up to the pool lookup: under clientMu, a hit returns
\* the pooled client (and the deferred Unlock runs); a miss goes on to
\* create a client, still holding clientMu.
getOrCreateClient(r) ==
    /\ hpc[r] = "getClient"
    /\ clientMu = None
    /\ LET k == generateCookieKey(cookies[r]) IN
         \/ /\ clientPool[k] # None
            /\ client' = [client EXCEPT ![r] = clientPool[k]]
            /\ hpc' = [hpc EXCEPT ![r] = "dispatch"]
            /\ UNCHANGED clientMu
         \/ /\ clientPool[k] = None
            /\ clientMu' = r
            /\ hpc' = [hpc EXCEPT ![r] = "initialize"]
            /\ UNCHANGED client
    /\ UNCHANGED <<env, clientPool, browserManager, loadedCookies, mu,
                   agentMu, cookies, kind, stream, request, backend,
                   gpc, ipc, disconnected, deadline,
                   lastResponse, currentResponse, lastContent, chunk, out,
                   outcome, ghosts>>

\* Initialize leaving a client whose initialisation failed in the pool.
Initialize_PoolsFailedClient(r) ==
    /\ hpc[r] = "initialize"
    /\ clientMu' = None
    /\ \/ /\ browserManager' = [browserManager EXCEPT ![r] = "attached"]
          /\ loadedCookies' = [loadedCookies EXCEPT ![r] = cookies[r]]
          /\ hpc' = [hpc EXCEPT ![r] = "dispatch"]
          /\ UNCHANGED out
       \/ /\ browserManager' = [browserManager EXCEPT ![r] = "closed"]
          /\ hpc' = [hpc EXCEPT ![r] = "returned"]
          /\ Write(r, <<ErrorBody>>)
          /\ UNCHANGED loadedCookies
    /\ clientPool' = [clientPool EXCEPT ![generateCookieKey(cookies[r])] = r]
    /\ client' = [client EXCEPT ![r] = r]
    /\ UNCHANGED <<env, mu, agentMu, cookies, kind, stream, request, backend,
                   gpc, ipc,
                   disconnected, deadline, lastResponse, currentResponse,
                   lastContent, chunk, outcome, ghosts>>

\* NewClaudeClient + ClaudeClient.Initialize + the rest of getOrCreateClient:
\* on success the client gets its browser manager and enters the pool; on
\* failure it is closed, the pool is untouched and the caller gets an error.
Initialize(r) ==
    /\ hpc[r] = "initialize"
    /\ clientMu' = None
    /\ \/ /\ browserManager' = [browserManager EXCEPT ![r] = "attached"]
          /\ loadedCookies' = [loadedCookies EXCEPT ![r] = cookies[r]]
          /\ clientPool' = [clientPool EXCEPT ![generateCookieKey(cookies[r])] = r]
          /\ client' = [client EXCEPT ![r] = r]
          /\ hpc' = [hpc EXCEPT ![r] = "dispatch"]
          /\ UNCHANGED out
       \/ /\ browserManager' = [browserManager EXCEPT ![r] = "closed"]
          /\ hpc' = [hpc EXCEPT ![r] = "returned"]
          /\ Write(r, <<ErrorBody>>)
          /\ UNCHANGED <<clientPool, client, loadedCookies>>
    /\ UNCHANGED <<env, mu, agentMu, cookies, kind, stream, request, backend,
                   gpc, ipc,
                   disconnected, deadline, lastResponse, currentResponse,
                   lastContent, chunk, outcome, ghosts>>

---------------------------------------------------------------------------
(* Adapter: ClaudeClient.StreamMessage in the handler's goroutine *)

\* handleStreamingResponse up to its select loop: the channels are made, the
\* goroutine is started and the role chunk is written.
handleStreamingResponse(r) ==
    /\ hpc[r] = "dispatch"
    /\ stream[r]
    /\ gpc' = [gpc EXCEPT ![r] = "start"]
    /\ Write(r, <<RoleChunk>>)
    /\ hpc' = [hpc EXCEPT ![r] = "select"]
    /\ UNCHANGED <<env, pools, mu, agentMu, reqInputs, ipc, disconnected,
                   deadline, lastResponse, currentResponse, lastContent,
                   chunk, outcome, ghosts>>

\* StreamMessageLock without the wait for the mutex.
StreamMessageLock_NoWait(r) ==
    /\ gpc[r] = "start"
    /\ mu' = [mu EXCEPT ![client[r]] = r]
    /\ gpc' = [gpc EXCEPT ![r] = "locked"]
    /\ UNCHANGED <<env, pools, agentMu, reqInputs, hpc, ipc, disconnected,
                   deadline, lastResponse, currentResponse, lastContent,
                   chunk, out, outcome, ghosts>>

\* c.mu.Lock() of StreamMessage.
StreamMessageLock(r) ==
    /\ gpc[r] = "start"
    /\ mu[client[r]] = None
    /\ mu' = [mu EXCEPT ![client[r]] = r]
    /\ gpc' = [gpc EXCEPT ![r] = "locked"]
    /\ UNCHANGED <<env, pools, agentMu, reqInputs, hpc, ipc, disconnected,
                   deadline, lastResponse, currentResponse, lastContent,
                   chunk, out, outcome, ghosts>>

\* StreamMessageFails without the Unlock.
StreamMessageFails_NoUnlock(r, e) ==
    /\ UNCHANGED mu
    /\ outcome' = [outcome EXCEPT ![r] = e]
    /\ gpc' = [gpc EXCEPT ![r] = "sendErr"]

\* The return of StreamMessage with error e: the deferred Unlock runs and
\* the goroutine goes to send the error on errCh.
StreamMessageFails(r, e) ==
    /\ mu' = [mu EXCEPT ![client[r]] = None]
    /\ outcome' = [outcome EXCEPT ![r] = e]
    /\ gpc' = [gpc EXCEPT ![r] = "sendErr"]

\* BrowserManager.StreamResponse up to the monitor: the prompt is typed and
\* sent, or a step on the textarea fails.
StreamResponse(r) ==
    /\ gpc[r] = "locked"
    /\ \/ StreamMessageFails(r, IF browserManager[client[r]] = "nil"
                                 THEN "notInitialized" ELSE "submitErr")
       \/ /\ browserManager[client[r]] # "nil"
          /\ gpc' = [gpc EXCEPT ![r] = "poll"]
          /\ UNCHANGED <<mu, outcome>>
    /\ UNCHANGED <<env, pools, agentMu, reqInputs, hpc, ipc, disconnected,
                   deadline, lastResponse, currentResponse, lastContent,
                   chunk, out, ghosts>>

\* The clock: the monitor's overall deadline passes.
Tick(r) ==
    /\ ~deadline[r]
    /\ \/ gpc[r] \in {"poll", "sendResp", "busy", "confirm"}
       \/ hpc[r] \in {"wait", "waitConfirm", "askWait", "askConfirm"}
       \/ ipc[r] \in {"poll", "sendResp", "busy", "confirm"}
    /\ deadline' = [deadline EXCEPT ![r] = TRUE]
    /\ UNCHANGED <<env, pools, mu, agentMu, reqInputs, hpc, gpc, ipc,
                   disconnected, lastResponse, currentResponse, lastContent,
                   chunk, out, outcome, ghosts>>

\* The caller closes the connection.
Disconnect(r) ==
    /\ hpc[r] \notin {"new", "returned"}
    /\ ~disconnected[r]
    /\ disconnected' = [disconnected EXCEPT ![r] = TRUE]
    /\ UNCHANGED <<env, pools, mu, agentMu, reqInputs, hpc, gpc, ipc,
                   deadline, lastResponse, currentResponse, lastContent,
                   chunk, out, outcome, ghosts>>

\* monitorTimeout returning the error without the callback.
monitorTimeout_NoCallback(r) ==
    StreamMessageFails(r, "timeout") /\ UNCHANGED callbacks

\* monitorResponseStream past its deadline: callback("", true), then (once
\* the callback has returned) the timeout error.
monitorTimeout(r) ==
    /\ outcome' = [outcome EXCEPT ![r] = "timeout"]
    /\ Callback(r, <<>>, TRUE)
    /\ gpc' = [gpc EXCEPT ![r] = "sendDone"]
    /\ UNCHANGED mu

\* monitorResponseStream, head of the loop to the first callback or to the
\* busy check: ctx.Done, the deadline, then the extraction.
monitorResponseStream(r) ==
    /\ gpc[r] = "poll"
    /\ \/ /\ ctxDone(r)
          /\ StreamMessageFails(r, "cancelled")
          /\ UNCHANGED <<currentResponse, ghosts>>
       \/ /\ ~ctxDone(r)
          /\ deadline[r]
          /\ monitorTimeout(r)
          /\ UNCHANGED <<currentResponse, busy1, busy2, diverged, nchanges,
                         observed>>
       \/ /\ ~ctxDone(r)
          /\ ~deadline[r]
          /\ UNCHANGED <<mu, outcome, gpc, currentResponse, ghosts>>
       \/ /\ ~ctxDone(r)
          /\ ~deadline[r]
          /\ \E t \in Readable(r) :
               /\ NoteRead(r, t)
               /\ IF t # lastResponse[r]
                  THEN /\ Callback(r, t, FALSE)
                       /\ gpc' = [gpc EXCEPT ![r] = "sendResp"]
                  ELSE /\ gpc' = [gpc EXCEPT ![r] = "busy"]
                       /\ UNCHANGED callbacks
          /\ busy1' = [busy1 EXCEPT ![r] = "none"]
          /\ busy2' = [busy2 EXCEPT ![r] = "none"]
          /\ UNCHANGED observed
          /\ UNCHANGED <<mu, outcome>>
    /\ UNCHANGED <<env, pools, agentMu, reqInputs, hpc, ipc, disconnected,
                   deadline, lastResponse, lastContent, chunk, out>>

\* monitorResponseStream, the first query of the typing indicator.
checkTypingIndicator(r) ==
    /\ backend[r] = "claude"
    /\ gpc[r] = "busy"
    /\ \E b \in BusyReadings :
         /\ busy1' = [busy1 EXCEPT ![r] = b]
         /\ Observe(r, currentResponse[r], b)
         /\ \/ /\ b = "err"
               /\ StreamMessageFails(r, "domErr")
            \/ /\ b = "busy"
               /\ gpc' = [gpc EXCEPT ![r] = "poll"]
               /\ UNCHANGED <<mu, outcome>>
            \/ /\ b = "idle"
               /\ gpc' = [gpc EXCEPT ![r] = "confirm"]
               /\ UNCHANGED <<mu, outcome>>
    /\ UNCHANGED <<env, pools, agentMu, reqInputs, hpc, ipc, disconnected,
                   deadline, lastResponse, currentResponse, lastContent,
                   chunk, out, busy2, diverged, nchanges, callbacks>>

\* monitorResponseStream, the confirmation query after the delay, and on a
\* second idle reading the final extraction and the done callback.
recheckTypingIndicator(r) ==
    /\ backend[r] = "claude"
    /\ gpc[r] = "confirm"
    /\ \E b \in BusyReadings :
         /\ busy2' = [busy2 EXCEPT ![r] = b]
         /\ \/ /\ b = "err"
               /\ StreamMessageFails(r, "domErr")
               /\ Observe(r, currentResponse[r], b)
               /\ UNCHANGED <<currentResponse, diverged, nchanges, callbacks>>
            \/ /\ b = "busy"
               /\ gpc' = [gpc EXCEPT ![r] = "poll"]
               /\ Observe(r, currentResponse[r], b)
               /\ UNCHANGED <<mu, outcome, currentResponse, diverged, nchanges,
                              callbacks>>
            \/ /\ b = "idle"
               /\ \/ \E t \in Readable(r) :
                        /\ NoteRead(r, t)
                        /\ Observe(r, t, b)
                        /\ Callback(r, IF t # lastResponse[r] THEN t ELSE <<>>, TRUE)
                  \/ /\ Observe(r, currentResponse[r], b)
                     /\ Callback(r, <<>>, TRUE)
                     /\ UNCHANGED <<currentResponse, diverged, nchanges>>
               /\ outcome' = [outcome EXCEPT ![r] = "done"]
               /\ gpc' = [gpc EXCEPT ![r] = "sendDone"]
               /\ UNCHANGED mu
    /\ UNCHANGED <<env, pools, agentMu, reqInputs, hpc, ipc, disconnected,
                   deadline, lastResponse, lastContent, chunk, out, busy1>>

\* The return of StreamMessage after the done callback has returned: the
\* deferred Unlock; a timeout is returned as an error and goes to errCh.
StreamMessageReturn(r) ==
    /\ gpc[r] = "ret"
    /\ mu' = [mu EXCEPT ![client[r]] = None]
    /\ gpc' = [gpc EXCEPT ![r] = IF outcome[r] = "timeout" THEN "sendErr" ELSE "exit"]
    /\ UNCHANGED <<env, pools, agentMu, reqInputs, hpc, ipc, disconnected,
                   deadline, lastResponse, currentResponse, lastContent,
                   chunk, out, outcome, ghosts>>

---------------------------------------------------------------------------
(* Adapter: the select loop of handleStreamingResponse *)

\* recvResponseCh writing the content chunk twice.
recvResponseCh_Twice(r) ==
    /\ path = "adapter"
    /\ hpc[r] = "select"
    /\ gpc[r] = "sendResp"
    /\ Write(r, <<ContentChunk(TrimPrefix(currentResponse[r], lastContent[r])),
                  ContentChunk(TrimPrefix(currentResponse[r], lastContent[r]))>>)
    /\ lastContent' = [lastContent EXCEPT ![r] = currentResponse[r]]
    /\ lastResponse' = [lastResponse EXCEPT ![r] = currentResponse[r]]
    /\ gpc' = [gpc EXCEPT ![r] = "busy"]
    /\ UNCHANGED <<env, pools, mu, agentMu, reqInputs, hpc, ipc,
                   disconnected, deadline, currentResponse, chunk, outcome,
                   ghosts>>

\* recvResponseCh computing every delta against the first baseline.
recvResponseCh_KeepsBaseline(r) ==
    /\ path = "adapter"
    /\ hpc[r] = "select"
    /\ gpc[r] = "sendResp"
    /\ Write(r, <<ContentChunk(TrimPrefix(currentResponse[r], lastContent[r]))>>)
    /\ lastResponse' = [lastResponse EXCEPT ![r] = currentResponse[r]]
    /\ gpc' = [gpc EXCEPT ![r] = "busy"]
    /\ UNCHANGED <<env, pools, mu, agentMu, reqInputs, hpc, ipc,
                   disconnected, deadline, currentResponse, lastContent,
                   chunk, outcome, ghosts>>

\* case content := <-responseCh: the callback's send and this receive meet;
\* the monitor then sets lastResponse and goes to its busy check.
recvResponseCh(r) ==
    /\ path = "adapter"
    /\ hpc[r] = "select"
    /\ gpc[r] = "sendResp"
    /\ Write(r, <<ContentChunk(TrimPrefix(currentResponse[r], lastContent[r]))>>)
    /\ lastContent' = [lastContent EXCEPT ![r] = currentResponse[r]]
    /\ lastResponse' = [lastResponse EXCEPT ![r] = currentResponse[r]]
    /\ gpc' = [gpc EXCEPT ![r] = "busy"]
    /\ UNCHANGED <<env, pools, mu, agentMu, reqInputs, hpc, ipc,
                   disconnected, deadline, currentResponse, chunk, outcome,
                   ghosts>>

\* recvDoneCh without the sentinel.
recvDoneCh_NoSentinel(r) ==
    /\ path = "adapter"
    /\ hpc[r] = "select"
    /\ gpc[r] = "sendDone"
    /\ Write(r, <<FinalChunk>>)
    /\ hpc' = [hpc EXCEPT ![r] = "returned"]
    /\ gpc' = [gpc EXCEPT ![r] = "ret"]
    /\ UNCHANGED <<env, pools, mu, agentMu, reqInputs, ipc, disconnected,
                   deadline, lastResponse, currentResponse, lastContent,
                   chunk, outcome, ghosts>>

\* case <-doneCh: the final chunk and the sentinel are written.
recvDoneCh(r) ==
    /\ path = "adapter"
    /\ hpc[r] = "select"
    /\ gpc[r] = "sendDone"
    /\ Write(r, <<FinalChunk, DoneSentinel>>)
    /\ hpc' = [hpc EXCEPT ![r] = "returned"]
    /\ gpc' = [gpc EXCEPT ![r] = "ret"]
    /\ UNCHANGED <<env, pools, mu, agentMu, reqInputs, ipc, disconnected,
                   deadline, lastResponse, currentResponse, lastContent,
                   chunk, outcome, ghosts>>

\* case err := <-errCh: response.Error.
recvErrCh(r) ==
    /\ path = "adapter"
    /\ hpc[r] = "select"
    /\ gpc[r] = "sendErr"
    /\ Write(r, <<ErrorBody>>)
    /\ hpc' = [hpc EXCEPT ![r] = "returned"]
    /\ gpc' = [gpc EXCEPT ![r] = "exit"]
    /\ UNCHANGED <<env, pools, mu, agentMu, reqInputs, ipc, disconnected,
                   deadline, lastResponse, currentResponse, lastContent,
                   chunk, outcome, ghosts>>

\* case <-ctx.Request.Context().Done(): the handler returns.
recvCtxDone(r) ==
    /\ path = "adapter"
    /\ hpc[r] = "select"
    /\ disconnected[r]
    /\ hpc' = [hpc EXCEPT ![r] = "returned"]
    /\ UNCHANGED <<env, pools, mu, agentMu, reqInputs, gpc, ipc,
                   disconnected, deadline, lastResponse, currentResponse,
                   lastContent, chunk, out, outcome, ghosts>>

---------------------------------------------------------------------------
(* Adapter: handleNonStreamingResponse and ClaudeClient.SendMessage *)

\* handleNonStreamingResponse calls client.SendMessage.
handleNonStreamingResponse(r) ==
    /\ path = "adapter"
    /\ hpc[r] = "dispatch"
    /\ ~stream[r]
    /\ hpc' = [hpc EXCEPT ![r] = "lock"]
    /\ UNCHANGED <<env, pools, mu, agentMu, reqInputs, gpc, ipc,
                   disconnected, deadline, lastResponse, currentResponse,
                   lastContent, chunk, out, outcome, ghosts>>

\* c.mu.Lock() of SendMessage.
SendMessageLock(r) ==
    /\ path = "adapter"
    /\ hpc[r] = "lock"
    /\ mu[client[r]] = None
    /\ mu' = [mu EXCEPT ![client[r]] = r]
    /\ hpc' = [hpc EXCEPT ![r] = "submit"]
    /\ UNCHANGED <<env, pools, agentMu, reqInputs, gpc, ipc, disconnected,
                   deadline, lastResponse, currentResponse, lastContent,
                   chunk, out, outcome, ghosts>>

\* The return of SendMessage with error e: the deferred Unlock runs and
\* handleNonStreamingResponse answers with response.Error.
SendMessageFails(r, e) ==
    /\ mu' = [mu EXCEPT ![client[r]] = None]
    /\ outcome' = [outcome EXCEPT ![r] = e]
    /\ Write(r, <<ErrorBody>>)
    /\ hpc' = [hpc EXCEPT ![r] = "returned"]

\* BrowserManager.SendMessage up to the wait: the prompt is typed and sent.
SendMessage(r) ==
    /\ path = "adapter"
    /\ backend[r] = "claude"
    /\ hpc[r] = "submit"
    /\ \/ SendMessageFails(r, IF browserManager[client[r]] = "nil"
                               THEN "notInitialized" ELSE "submitErr")
       \/ /\ browserManager[client[r]] # "nil"
          /\ hpc' = [hpc EXCEPT ![r] = "wait"]
          /\ UNCHANGED <<mu, outcome, out>>
    /\ UNCHANGED <<env, pools, agentMu, reqInputs, gpc, ipc, disconnected,
                   deadline, lastResponse, currentResponse, lastContent,
                   chunk, ghosts>>

\* waitForClaudeToFinishTyping, head of the loop and first count.
waitForClaudeToFinishTyping(r) ==
    /\ path = "adapter"
    /\ hpc[r] = "wait"
    /\ \/ /\ disconnected[r]
          /\ SendMessageFails(r, "cancelled")
          /\ UNCHANGED busy1
       \/ /\ ~disconnected[r]
          /\ deadline[r]
          /\ SendMessageFails(r, "timeout")
          /\ UNCHANGED busy1
       \/ /\ ~disconnected[r]
          /\ ~deadline[r]
          /\ \E b \in BusyReadings :
               /\ busy1' = [busy1 EXCEPT ![r] = b]
               /\ \/ /\ b = "err"
                     /\ SendMessageFails(r, "domErr")
                  \/ /\ b = "busy"
                     /\ UNCHANGED <<mu, outcome, out, hpc>>
                  \/ /\ b = "idle"
                     /\ hpc' = [hpc EXCEPT ![r] = "waitConfirm"]
                     /\ UNCHANGED <<mu, outcome, out>>
    /\ UNCHANGED <<env, pools, agentMu, reqInputs, gpc, ipc, disconnected,
                   deadline, lastResponse, currentResponse, lastContent,
                   chunk, busy2, diverged, nchanges, observed, callbacks>>

\* waitForClaudeToFinishTyping, the second count after the delay; on a second
\* idle reading SendMessage extracts the response and returns it.
recountTypingIndicator(r) ==
    /\ path = "adapter"
    /\ hpc[r] = "waitConfirm"
    /\ \E b \in BusyReadings :
         /\ busy2' = [busy2 EXCEPT ![r] = b]
         /\ \/ /\ b = "err"
               /\ SendMessageFails(r, "domErr")
               /\ UNCHANGED currentResponse
            \/ /\ b = "busy"
               /\ hpc' = [hpc EXCEPT ![r] = "wait"]
               /\ UNCHANGED <<mu, outcome, out, currentResponse>>
            \/ /\ b = "idle"
               /\ SendMessageFails(r, "extractErr")
               /\ UNCHANGED currentResponse
            \/ /\ b = "idle"
               /\ \E t \in Texts :
                    /\ currentResponse' = [currentResponse EXCEPT ![r] = t]
                    /\ Write(r, <<JsonBody(t)>>)
               /\ mu' = [mu EXCEPT ![client[r]] = None]
               /\ outcome' = [outcome EXCEPT ![r] = "done"]
               /\ hpc' = [hpc EXCEPT ![r] = "returned"]
    /\ UNCHANGED <<env, pools, agentMu, reqInputs, gpc, ipc, disconnected,
                   deadline, lastResponse, lastContent, chunk, busy1,
                   diverged, nchanges, observed, callbacks>>

---------------------------------------------------------------------------
(* API server: Server.handleChatCompletions / handleCompletions and the    *)
(* ClaudeAgent entry points                                                *)

\* A completions handler up to the call of the agent: the request rq is
\* validated and the agent is selected by the model's prefix; first is the
\* handler position at the Claude agent's entry point.  A rejected request
\* is answered with http.Error and the handler returns.
Handle(r, k, rq, first) ==
    /\ request' = [request EXCEPT ![r] = rq]
    /\ kind' = [kind EXCEPT ![r] = k]
    /\ IF Validate(rq) # "ok"
       THEN /\ Write(r, <<HttpError(Validate(rq))>>)
            /\ hpc' = [hpc EXCEPT ![r] = "returned"]
            /\ UNCHANGED backend
       ELSE IF RouteOf(rq.model) = None
       THEN /\ Write(r, <<HttpError("400")>>)
            /\ hpc' = [hpc EXCEPT ![r] = "returned"]
            /\ UNCHANGED backend
       ELSE /\ backend' = [backend EXCEPT ![r] = RouteOf(rq.model)]
            /\ hpc' = [hpc EXCEPT ![r] =
                         IF RouteOf(rq.model) = "claude" THEN first
                         ELSE "copilotLock"]
            /\ UNCHANGED out

\* handleChatCompletions up to the call of ProcessChatCompletion.
handleChatCompletions(r) ==
    /\ path = "server"
    /\ r \in Arrivals
    /\ hpc[r] = "new"
    /\ \E st \in BOOLEAN, rq \in Requests :
         /\ stream' = [stream EXCEPT ![r] = st]
         /\ Handle(r, "chat", rq, "agentLock")
    /\ UNCHANGED <<env, pools, mu, agentMu, cookies, client, gpc, ipc,
                   disconnected, deadline, lastResponse, currentResponse,
                   lastContent, chunk, outcome, ghosts>>

\* handleCompletions up to the call of ProcessCompletion.
handleCompletions(r) ==
    /\ path = "server"
    /\ r \in Arrivals
    /\ hpc[r] = "new"
    /\ \E st \in BOOLEAN, rq \in Requests :
         /\ stream' = [stream EXCEPT ![r] = st]
         /\ Handle(r, "legacy", rq, "legacyLock")
    /\ UNCHANGED <<env, pools, mu, agentMu, cookies, client, gpc, ipc,
                   disconnected, deadline, lastResponse, currentResponse,
                   lastContent, chunk, outcome, ghosts>>

\* ProcessCompletion: a.mu.Lock(), then the call of ProcessChatCompletion
\* with the one-message chat request.
ProcessCompletion(r) ==
    /\ hpc[r] = "legacyLock"
    /\ agentMu["claude"] = None
    /\ agentMu' = [agentMu EXCEPT !["claude"] = r]
    /\ hpc' = [hpc EXCEPT ![r] = "agentLock"]
    /\ UNCHANGED <<env, pools, mu, reqInputs, gpc, ipc, disconnected,
                   deadline, lastResponse, currentResponse, lastContent,
                   chunk, out, outcome, ghosts>>

\* ProcessChatCompletion: a.mu.Lock().  sync.Mutex is not reentrant: the
\* caller waits also when it is itself the holder.
ProcessChatCompletion(r) ==
    /\ hpc[r] = "agentLock"
    /\ agentMu["claude"] = None
    /\ agentMu' = [agentMu EXCEPT !["claude"] = r]
    /\ hpc' = [hpc EXCEPT ![r] = "process"]
    /\ UNCHANGED <<env, pools, mu, reqInputs, gpc, ipc, disconnected,
                   deadline, lastResponse, currentResponse, lastContent,
                   chunk, out, outcome, ghosts>>

\* The non-streaming answer: the chat completion object, or for a legacy
\* request ProcessCompletion's conversion of it.
Answer(r, t) == IF kind[r] = "legacy" THEN <<"text_completion", t>> ELSE JsonBody(t)

---------------------------------------------------------------------------
(* API server: ClaudeAgent.handleNonStreamingChatCompletion, Session.AskClaude *)

\* The return of ProcessChatCompletion with error e: the deferred Unlock
\* runs and the handler answers with http.Error.
AskClaudeFails(r, e) ==
    /\ agentMu' = [agentMu EXCEPT ![backend[r]] = None]
    /\ outcome' = [outcome EXCEPT ![r] = e]
    /\ Write(r, <<ErrorBody>>)
    /\ hpc' = [hpc EXCEPT ![r] = "returned"]

\* Session.AskClaude up to the wait: navigate, type the prompt, press Enter.
AskClaude(r) ==
    /\ hpc[r] = "process"
    /\ backend[r] = "claude"
    /\ ~stream[r]
    /\ \/ AskClaudeFails(r, SubmitError)
       \/ /\ sessionCtx = "live"
          /\ hpc' = [hpc EXCEPT ![r] = "askWait"]
          /\ UNCHANGED <<agentMu, outcome, out>>
    /\ UNCHANGED <<env, pools, mu, reqInputs, gpc, ipc, disconnected,
                   deadline, lastResponse, currentResponse, lastContent,
                   chunk, ghosts>>

\* Session.WaitForClaudeToFinishTyping, head of the loop and first check.
WaitForClaudeToFinishTyping(r) ==
    /\ hpc[r] = "askWait"
    /\ \/ /\ sessionCtx = "expired"
          /\ AskClaudeFails(r, "sessionExpired")
          /\ UNCHANGED busy1
       \/ /\ sessionCtx = "live"
          /\ deadline[r]
          /\ AskClaudeFails(r, "timeout")
          /\ UNCHANGED busy1
       \/ /\ sessionCtx = "live"
          /\ ~deadline[r]
          /\ \E b \in BusyReadings :
               /\ busy1' = [busy1 EXCEPT ![r] = b]
               /\ \/ /\ b = "err"
                     /\ AskClaudeFails(r, "domErr")
                  \/ /\ b = "busy"
                     /\ UNCHANGED <<agentMu, outcome, out, hpc>>
                  \/ /\ b = "idle"
                     /\ hpc' = [hpc EXCEPT ![r] = "askConfirm"]
                     /\ UNCHANGED <<agentMu, outcome, out>>
    /\ UNCHANGED <<env, pools, mu, reqInputs, gpc, ipc, disconnected,
                   deadline, lastResponse, currentResponse, lastContent,
                   chunk, busy2, diverged, nchanges, observed, callbacks>>

\* Session.WaitForClaudeToFinishTyping, the second check after the delay; on
\* a second idle reading AskClaude extracts the response and returns it.
RecheckClaudeTyping(r) ==
    /\ hpc[r] = "askConfirm"
    /\ \E b \in SessionReadings :
         /\ busy2' = [busy2 EXCEPT ![r] = b]
         /\ \/ /\ b = "err"
               /\ AskClaudeFails(r, "domErr")
               /\ UNCHANGED currentResponse
            \/ /\ b = "busy"
               /\ hpc' = [hpc EXCEPT ![r] = "askWait"]
               /\ UNCHANGED <<agentMu, outcome, out, currentResponse>>
            \/ /\ b = "idle"
               /\ AskClaudeFails(r, "extractErr")
               /\ UNCHANGED currentResponse
            \/ /\ b = "idle"
               /\ sessionCtx = "live"
               /\ \E t \in Texts :
                    /\ currentResponse' = [currentResponse EXCEPT ![r] = t]
                    /\ Write(r, <<Answer(r, t)>>)
               /\ agentMu' = [agentMu EXCEPT ![backend[r]] = None]
               /\ outcome' = [outcome EXCEPT ![r] = "done"]
               /\ hpc' = [hpc EXCEPT ![r] = "returned"]
    /\ UNCHANGED <<env, pools, mu, reqInputs, gpc, ipc, disconnected,
                   deadline, lastResponse, lastContent, chunk, busy1,
                   diverged, nchanges, observed, callbacks>>

---------------------------------------------------------------------------
(* API server: ClaudeAgent.handleStreamingChatCompletion *)

\* handleStreamingChatCompletion itself: streamCh is made, the outer
\* goroutine is started, streamCh is returned; ProcessChatCompletion returns
\* and its deferred Unlock runs.  The handler goes on to range over streamCh.
handleStreamingChatCompletion(r) ==
    /\ hpc[r] = "process"
    /\ stream[r]
    /\ ~(backend[r] = "copilot" /\ kind[r] = "legacy")
    /\ agentMu' = [agentMu EXCEPT ![backend[r]] = None]
    /\ hpc' = [hpc EXCEPT ![r] = "range"]
    /\ gpc' = [gpc EXCEPT ![r] = "sendChunk"]
    /\ chunk' = [chunk EXCEPT ![r] = RoleChunk]
    /\ UNCHANGED <<env, pools, mu, reqInputs, ipc, disconnected, deadline,
                   lastResponse, currentResponse, lastContent, out, outcome,
                   ghosts>>

\* for chunk := range streamCh: the outer goroutine's send and this receive
\* meet; the chunk is written, and after a Done chunk the sentinel.  After
\* its first send (the role chunk) the outer goroutine makes timeoutCtx and
\* starts the inner goroutine; after the final chunk it returns, which runs
\* cancel() and close(streamCh).
recvStreamCh(r) ==
    /\ hpc[r] = "range"
    /\ gpc[r] = "sendChunk"
    /\ IF chunk[r] = FinalChunk
       THEN /\ Write(r, <<chunk[r], DoneSentinel>>)
            /\ hpc' = [hpc EXCEPT ![r] = "returned"]
            /\ gpc' = [gpc EXCEPT ![r] = "exit"]
            /\ UNCHANGED ipc
       ELSE /\ Write(r, <<chunk[r]>>)
            /\ gpc' = [gpc EXCEPT ![r] = "select"]
            /\ ipc' = [ipc EXCEPT ![r] = IF chunk[r] = RoleChunk THEN "submit" ELSE @]
            /\ UNCHANGED hpc
    /\ UNCHANGED <<env, pools, mu, agentMu, reqInputs, disconnected,
                   deadline, lastResponse, currentResponse, lastContent,
                   chunk, outcome, ghosts>>

\* The range loop ends because streamCh was closed.
streamChClosed(r) ==
    /\ hpc[r] = "range"
    /\ gpc[r] = "exit"
    /\ hpc' = [hpc EXCEPT ![r] = "returned"]
    /\ UNCHANGED <<env, pools, mu, agentMu, reqInputs, gpc, ipc,
                   disconnected, deadline, lastResponse, currentResponse,
                   lastContent, chunk, out, outcome, ghosts>>

\* timeoutCtx of the outer goroutine: done at the deadline, when the request
\* context is done, and when the outer goroutine has returned (defer cancel).
timeoutCtxDone(r) == deadline[r] \/ ctxDone(r) \/ gpc[r] = "exit"

\* Inner goroutine: Session.SendPromptToClaude.
SendPromptToClaude(r) ==
    /\ ipc[r] = "submit"
    /\ \/ /\ ipc' = [ipc EXCEPT ![r] = "sendErr"]
          /\ outcome' = [outcome EXCEPT ![r] = SubmitError]
       \/ /\ sessionCtx = "live"
          /\ ipc' = [ipc EXCEPT ![r] = "poll"]
          /\ UNCHANGED outcome
    /\ UNCHANGED <<env, pools, mu, agentMu, reqInputs, hpc, gpc,
                   disconnected, deadline, lastResponse, currentResponse,
                   lastContent, chunk, out, ghosts>>

\* Inner goroutine, head of the monitoring loop to the send on responseCh or
\* to the typing check.
monitorClaudeResponse(r) ==
    /\ ipc[r] = "poll"
    /\ \/ /\ timeoutCtxDone(r)
          /\ outcome' = [outcome EXCEPT ![r] = IF deadline[r] THEN "timeout" ELSE "cancelled"]
          /\ ipc' = [ipc EXCEPT ![r] = "sendDone"]
          /\ Callback(r, <<>>, TRUE)
          /\ UNCHANGED <<currentResponse, busy1, busy2, diverged, nchanges,
                         observed>>
       \/ /\ ~timeoutCtxDone(r)
          /\ UNCHANGED <<outcome, ipc, currentResponse, ghosts>>
       \/ /\ ~timeoutCtxDone(r)
          /\ sessionCtx = "live"
          /\ \E t \in Readable(r) :
               /\ NoteRead(r, t)
               /\ IF t # lastResponse[r]
                  THEN /\ Callback(r, t, FALSE)
                       /\ ipc' = [ipc EXCEPT ![r] = "sendResp"]
                  ELSE /\ ipc' = [ipc EXCEPT ![r] = "busy"]
                       /\ UNCHANGED callbacks
          /\ busy1' = [busy1 EXCEPT ![r] = "none"]
          /\ busy2' = [busy2 EXCEPT ![r] = "none"]
          /\ UNCHANGED observed
          /\ UNCHANGED outcome
    /\ UNCHANGED <<env, pools, mu, agentMu, reqInputs, hpc, gpc,
                   disconnected, deadline, lastResponse, lastContent, chunk,
                   out>>

\* Inner goroutine: the first IsClaudeTyping; a failed query continues the
\* loop.
IsClaudeTyping(r) ==
    /\ ipc[r] = "busy"
    /\ \E b \in SessionReadings :
         /\ busy1' = [busy1 EXCEPT ![r] = b]
         /\ Observe(r, currentResponse[r], b)
         /\ ipc' = [ipc EXCEPT ![r] = IF b = "idle" THEN "confirm" ELSE "poll"]
    /\ UNCHANGED <<env, pools, mu, agentMu, reqInputs, hpc, gpc,
                   disconnected, deadline, lastResponse, currentResponse,
                   lastContent, chunk, out, outcome, busy2, diverged,
                   nchanges, callbacks>>

\* Inner goroutine: `isTyping, _ = a.session.IsClaudeTyping()` after the
\* delay; IsClaudeTyping returns false with its error.
isTypingOf(b) == b = "busy"

RecheckIsClaudeTyping(r) ==
    /\ ipc[r] = "confirm"
    /\ \E b \in SessionReadings :
         /\ busy2' = [busy2 EXCEPT ![r] = b]
         /\ Observe(r, currentResponse[r], b)
         /\ IF isTypingOf(b)
            THEN /\ ipc' = [ipc EXCEPT ![r] = "poll"]
                 /\ UNCHANGED <<outcome, callbacks>>
            ELSE /\ ipc' = [ipc EXCEPT ![r] = "sendDone"]
                 /\ Callback(r, <<>>, TRUE)
                 /\ outcome' = [outcome EXCEPT ![r] = "done"]
    /\ UNCHANGED <<env, pools, mu, agentMu, reqInputs, hpc, gpc,
                   disconnected, deadline, lastResponse, currentResponse,
                   lastContent, chunk, out, busy1, diverged, nchanges>>

\* Outer goroutine, case content := <-responseCh: the delta becomes the next
\* chunk for streamCh; the inner goroutine sets fullResponse and goes on.
outerRecvResponseCh(r) ==
    /\ gpc[r] = "select"
    /\ ipc[r] = "sendResp"
    /\ chunk' = [chunk EXCEPT ![r] =
                   ContentChunk(TrimPrefix(currentResponse[r], lastContent[r]))]
    /\ lastContent' = [lastContent EXCEPT ![r] = currentResponse[r]]
    /\ lastResponse' = [lastResponse EXCEPT ![r] = currentResponse[r]]
    /\ gpc' = [gpc EXCEPT ![r] = "sendChunk"]
    /\ ipc' = [ipc EXCEPT ![r] = "busy"]
    /\ UNCHANGED <<env, pools, mu, agentMu, reqInputs, hpc, disconnected,
                   deadline, currentResponse, out, outcome, ghosts>>

\* Outer goroutine, case <-doneCh: the final chunk is next for streamCh.
outerRecvDoneCh(r) ==
    /\ gpc[r] = "select"
    /\ ipc[r] = "sendDone"
    /\ chunk' = [chunk EXCEPT ![r] = FinalChunk]
    /\ gpc' = [gpc EXCEPT ![r] = "sendChunk"]
    /\ ipc' = [ipc EXCEPT ![r] = "exit"]
    /\ UNCHANGED <<env, pools, mu, agentMu, reqInputs, hpc, disconnected,
                   deadline, lastResponse, currentResponse, lastContent, out,
                   outcome, ghosts>>

\* Outer goroutine, case err := <-errCh: the error is logged and the
\* goroutine returns.
outerRecvErrCh(r) ==
    /\ gpc[r] = "select"
    /\ ipc[r] = "sendErr"
    /\ gpc' = [gpc EXCEPT ![r] = "exit"]
    /\ ipc' = [ipc EXCEPT ![r] = "exit"]
    /\ UNCHANGED <<env, pools, mu, agentMu, reqInputs, hpc, disconnected,
                   deadline, lastResponse, currentResponse, lastContent,
                   chunk, out, outcome, ghosts>>

\* Outer goroutine, case <-ctx.Done(): the goroutine returns.
outerCtxDone(r) ==
    /\ path = "server"
    /\ gpc[r] = "select"
    /\ ctxDone(r)
    /\ gpc' = [gpc EXCEPT ![r] = "exit"]
    /\ UNCHANGED <<env, pools, mu, agentMu, reqInputs, hpc, ipc,
                   disconnected, deadline, lastResponse, currentResponse,
                   lastContent, chunk, out, outcome, ghosts>>

ServerNext(r) ==
    \/ handleChatCompletions(r)
    \/ handleCompletions(r)
    \/ ProcessCompletion(r)
    \/ ProcessChatCompletion(r)
    \/ AskClaude(r)
    \/ WaitForClaudeToFinishTyping(r)
    \/ RecheckClaudeTyping(r)
    \/ handleStreamingChatCompletion(r)
    \/ recvStreamCh(r)
    \/ streamChClosed(r)
    \/ SendPromptToClaude(r)
    \/ monitorClaudeResponse(r)
    \/ IsClaudeTyping(r)
    \/ RecheckIsClaudeTyping(r)
    \/ outerRecvResponseCh(r)
    \/ outerRecvDoneCh(r)
    \/ outerRecvErrCh(r)
    \/ outerCtxDone(r)

---------------------------------------------------------------------------
(* Specification *)

AdapterNext(r) ==
    \/ Completion(r)
    \/ getOrCreateClient(r)
    \/ Initialize(r)
    \/ handleStreamingResponse(r)
    \/ StreamMessageLock(r)
    \/ StreamResponse(r)
    \/ monitorResponseStream(r)
    \/ checkTypingIndicator(r)
    \/ recheckTypingIndicator(r)
    \/ StreamMessageReturn(r)
    \/ recvResponseCh(r)
    \/ recvDoneCh(r)
    \/ recvErrCh(r)
    \/ recvCtxDone(r)
    \/ handleNonStreamingResponse(r)
    \/ SendMessageLock(r)
    \/ SendMessage(r)
    \/ waitForClaudeToFinishTyping(r)
    \/ recountTypingIndicator(r)

Next ==
    \E r \in Req :
        \/ AdapterNext(r)
        \/ ServerNext(r)
        \/ Tick(r)
        \/ Disconnect(r)

\* One request alone.
Spec == Init /\ [][Next]_vars

\* Two concurrent requests.
SpecShared == InitShared /\ [][Next]_vars

\* One request alone on the page of the "Hello, world" scenario.
SpecHello == InitHello /\ [][Next]_vars

\* Two concurrent requests to an adapter with a client in its pool.
NextPooled ==
    \E r \in Req :
        \/ AdapterNext(r)
        \/ Tick(r)
        \/ Disconnect(r)

SpecPooled == InitPooled /\ [][NextPooled]_vars

---------------------------------------------------------------------------
(* The Copilot backend: the web_copilot adapter and the CopilotAgent.  Where  *)
(* their text is that of the Claude backend (Completion, getOrCreateClient,   *)
(* the client's locking, the head of the monitoring loop, the channels and    *)
(* the select loops) the actions above serve both; the actions here are       *)
(* where the Copilot code differs.                                            *)

\* monitorSuggestionStream, the first query of the suggestion widget: a
\* failed query and "not generating" both lead to the confirmation.
checkGenerating(r) ==
    /\ path = "adapter"
    /\ backend[r] = "copilot"
    /\ gpc[r] = "busy"
    /\ \E b \in BusyReadings :
         /\ busy1' = [busy1 EXCEPT ![r] = b]
         /\ gpc' = [gpc EXCEPT ![r] = IF b = "busy" THEN "poll" ELSE "confirm"]
    /\ UNCHANGED <<env, pools, mu, agentMu, reqInputs, hpc, ipc, disconnected,
                   deadline, lastResponse, currentResponse, lastContent,
                   chunk, out, outcome, busy2, diverged, nchanges, observed,
                   callbacks>>

\* monitorSuggestionStream, the confirmation query after the delay: unless
\* it reads "generating", the final extraction and the done callback.
recheckGenerating(r) ==
    /\ path = "adapter"
    /\ backend[r] = "copilot"
    /\ gpc[r] = "confirm"
    /\ \E b \in BusyReadings :
         /\ busy2' = [busy2 EXCEPT ![r] = b]
         /\ IF b = "busy"
            THEN /\ gpc' = [gpc EXCEPT ![r] = "poll"]
                 /\ UNCHANGED <<outcome, currentResponse, diverged, nchanges,
                                callbacks>>
            ELSE /\ \/ \E t \in Readable(r) :
                          /\ NoteRead(r, t)
                          /\ Callback(r, IF t # lastResponse[r] THEN t ELSE <<>>, TRUE)
                    \/ /\ Callback(r, <<>>, TRUE)
                       /\ UNCHANGED <<currentResponse, diverged, nchanges>>
                 /\ outcome' = [outcome EXCEPT ![r] = "done"]
                 /\ gpc' = [gpc EXCEPT ![r] = "sendDone"]
    /\ UNCHANGED <<env, pools, mu, agentMu, reqInputs, hpc, ipc, disconnected,
                   deadline, lastResponse, lastContent, chunk, out, busy1,
                   observed>>

\* CopilotClient.GetCompletion past its Lock, BrowserManager.SendCodeContext:
\* the code is typed, the suggestion widget is awaited and the suggestion is
\* extracted at once.
SendCodeContext(r) ==
    /\ path = "adapter"
    /\ backend[r] = "copilot"
    /\ hpc[r] = "submit"
    /\ \/ /\ SendMessageFails(r, IF browserManager[client[r]] = "nil"
                                  THEN "notInitialized" ELSE "submitErr")
          /\ UNCHANGED currentResponse
       \/ /\ browserManager[client[r]] # "nil"
          /\ SendMessageFails(r, "extractErr")
          /\ UNCHANGED currentResponse
       \/ /\ browserManager[client[r]] # "nil"
          /\ \E t \in PageTexts(r) :
               /\ currentResponse' = [currentResponse EXCEPT ![r] = t]
               /\ Write(r, <<JsonBody(t)>>)
          /\ mu' = [mu EXCEPT ![client[r]] = None]
          /\ outcome' = [outcome EXCEPT ![r] = "done"]
          /\ hpc' = [hpc EXCEPT ![r] = "returned"]
    /\ UNCHANGED <<env, pools, agentMu, reqInputs, gpc, ipc, disconnected,
                   deadline, lastResponse, lastContent, chunk, ghosts>>

\* CopilotAgent.ProcessChatCompletion: a.mu.Lock().
CopilotProcessChatCompletion(r) ==
    /\ hpc[r] = "copilotLock"
    /\ kind[r] = "chat"
    /\ agentMu["copilot"] = None
    /\ agentMu' = [agentMu EXCEPT !["copilot"] = r]
    /\ hpc' = [hpc EXCEPT ![r] = "process"]
    /\ UNCHANGED <<env, pools, mu, reqInputs, gpc, ipc, disconnected,
                   deadline, lastResponse, currentResponse, lastContent,
                   chunk, out, outcome, ghosts>>

\* CopilotAgent.ProcessCompletion: a.mu.Lock(); it calls the completion
\* handlers itself.
CopilotProcessCompletion(r) ==
    /\ hpc[r] = "copilotLock"
    /\ kind[r] = "legacy"
    /\ agentMu["copilot"] = None
    /\ agentMu' = [agentMu EXCEPT !["copilot"] = r]
    /\ hpc' = [hpc EXCEPT ![r] = "process"]
    /\ UNCHANGED <<env, pools, mu, reqInputs, gpc, ipc, disconnected,
                   deadline, lastResponse, currentResponse, lastContent,
                   chunk, out, outcome, ghosts>>

\* handleNonStreamingChatCompletion / handleNonStreamingCompletion of the
\* CopilotAgent, Session.UseGitHubCopilot: navigate, type the code, sleep
\* three seconds, extract the suggestion.
UseGitHubCopilot(r) ==
    /\ hpc[r] = "process"
    /\ backend[r] = "copilot"
    /\ ~stream[r]
    /\ \/ /\ AskClaudeFails(r, SubmitError)
          /\ UNCHANGED currentResponse
       \/ /\ sessionCtx = "live"
          /\ AskClaudeFails(r, "extractErr")
          /\ UNCHANGED currentResponse
       \/ /\ sessionCtx = "live"
          /\ \E t \in PageTexts(r) :
               /\ currentResponse' = [currentResponse EXCEPT ![r] = t]
               /\ Write(r, <<Answer(r, t)>>)
          /\ agentMu' = [agentMu EXCEPT !["copilot"] = None]
          /\ outcome' = [outcome EXCEPT ![r] = "done"]
          /\ hpc' = [hpc EXCEPT ![r] = "returned"]
    /\ UNCHANGED <<env, pools, mu, reqInputs, gpc, ipc, disconnected,
                   deadline, lastResponse, lastContent, chunk, ghosts>>

\* CopilotAgent.handleStreamingCompletion itself: as
\* handleStreamingChatCompletion, but the outer goroutine sends no role
\* chunk: it makes timeoutCtx and starts the inner goroutine at once.
handleStreamingCompletion(r) ==
    /\ hpc[r] = "process"
    /\ stream[r]
    /\ backend[r] = "copilot"
    /\ kind[r] = "legacy"
    /\ agentMu' = [agentMu EXCEPT !["copilot"] = None]
    /\ hpc' = [hpc EXCEPT ![r] = "range"]
    /\ gpc' = [gpc EXCEPT ![r] = "select"]
    /\ ipc' = [ipc EXCEPT ![r] = "submit"]
    /\ UNCHANGED <<env, pools, mu, reqInputs, disconnected, deadline,
                   lastResponse, currentResponse, lastContent, chunk, out,
                   outcome, ghosts>>

CopilotNext(r) ==
    \/ checkGenerating(r)
    \/ recheckGenerating(r)
    \/ SendCodeContext(r)
    \/ CopilotProcessChatCompletion(r)
    \/ CopilotProcessCompletion(r)
    \/ UseGitHubCopilot(r)
    \/ handleStreamingCompletion(r)

\* The Session's context, made by context.WithTimeout(ctx, 5*time.Minute) in
\* NewSession when the server starts, reaches its deadline.
SessionDeadline ==
    /\ path = "server"
    /\ load = "any"
    /\ sessionCtx = "live"
    /\ sessionCtx' = "expired"
    /\ UNCHANGED <<path, load, messages, prompt, editing, pools, mu, agentMu,
                   reqInputs, hpc, gpc, ipc, disconnected, deadline,
                   lastResponse, currentResponse, lastContent, chunk, out,
                   outcome, ghosts>>

NextAny ==
    \/ Next
    \/ \E r \in Req : CopilotNext(r)
    \/ SessionDeadline

\* One request alone, at any time of the server's life.
SpecAny == InitAny /\ [][NextAny]_vars

\* The threads of request r; the clock and the caller are the environment.
HandlerNext(r) ==
    \/ Completion(r) \/ getOrCreateClient(r) \/ Initialize(r)
    \/ handleStreamingResponse(r) \/ handleNonStreamingResponse(r)
    \/ recvResponseCh(r) \/ recvDoneCh(r) \/ recvErrCh(r) \/ recvCtxDone(r)
    \/ SendMessageLock(r) \/ SendMessage(r)
    \/ waitForClaudeToFinishTyping(r) \/ recountTypingIndicator(r)
    \/ handleChatCompletions(r) \/ handleCompletions(r)
    \/ ProcessCompletion(r) \/ ProcessChatCompletion(r)
    \/ AskClaude(r) \/ WaitForClaudeToFinishTyping(r) \/ RecheckClaudeTyping(r)
    \/ handleStreamingChatCompletion(r) \/ recvStreamCh(r) \/ streamChClosed(r)

GoroutineNext(r) ==
    \/ StreamMessageLock(r) \/ StreamResponse(r) \/ monitorResponseStream(r)
    \/ checkTypingIndicator(r) \/ recheckTypingIndicator(r)
    \/ StreamMessageReturn(r)
    \/ outerRecvResponseCh(r) \/ outerRecvDoneCh(r) \/ outerRecvErrCh(r)
    \/ outerCtxDone(r)

InnerNext(r) ==
    \/ SendPromptToClaude(r) \/ monitorClaudeResponse(r)
    \/ IsClaudeTyping(r) \/ RecheckIsClaudeTyping(r)

\* One request alone, every goroutine scheduled fairly (the Go scheduler
\* runs every runnable goroutine).
FairSpec ==
    /\ Spec
    /\ \A r \in Req : /\ WF_vars(HandlerNext(r))
                      /\ WF_vars(GoroutineNext(r))
                      /\ WF_vars(InnerNext(r))

---------------------------------------------------------------------------
(* The prompt formatters, applied to a message list *)

\* The formatter f has returned the prompt p.
Formatted(f, p) ==
    /\ load = "prompt"
    /\ prompt = <<>>
    /\ prompt' = <<f, p>>
    /\ UNCHANGED <<path, load, messages, sessionCtx, editing, pools, mu,
                   agentMu,
                   reqInputs, hpc,
                   gpc, ipc, disconnected, deadline, lastResponse,
                   currentResponse, lastContent, chunk, out, outcome, ghosts>>

\* ProcessChatCompletion: prompt := formatClaudePrompt(req.Messages).
FormatClaudePrompt == Formatted("formatClaudePrompt", formatClaudePrompt(messages))

\* ClaudeClient.SendMessage / StreamMessage: prompt := formatPrompt(messages).
FormatPrompt == Formatted("formatPrompt", formatPrompt(messages))

\* ClaudeClient.SendMessage / StreamMessage of the other ClaudeClient:
\* prompt := c.formatMessages(messages).
FormatMessages == Formatted("formatMessages", formatMessages(messages))

NextPrompt == FormatClaudePrompt \/ FormatPrompt \/ FormatMessages

SpecPrompt == InitPrompt /\ [][NextPrompt]_vars

---------------------------------------------------------------------------
(* Properties *)

\* Request r is inside the body of StreamMessage or SendMessage, between
\* its Lock and its return.
InStreamMessage(r) ==
    /\ path = "adapter"
    /\ gpc[r] \in {"locked", "poll", "sendResp", "busy", "confirm", "sendDone", "ret"}

InSendMessage(r) ==
    /\ path = "adapter"
    /\ hpc[r] \in {"submit", "wait", "waitConfirm"}

InClientCall(r) == InStreamMessage(r) \/ InSendMessage(r)

\* C1: adapter path, the bodies of SendMessage and StreamMessage of one
\* pooled client never overlap: two different requests that are both between
\* the Lock and the return of their call hold different clients, so no
\* request submits its prompt while another's call on that client is open.
C1_ClientCallsNeverOverlap ==
    \A r1, r2 \in Req :
        (r1 # r2 /\ InClientCall(r1) /\ InClientCall(r2)) => client[r1] # client[r2]

\* C1 witness: a request waits at the Lock of the client on which another
\* request's call is open.
C1_Witness ==
    \E r1, r2 \in Req :
        /\ r1 # r2
        /\ InClientCall(r1)
        /\ client[r2] = client[r1]
        /\ gpc[r2] = "start" \/ hpc[r2] = "lock"

\* Request r is operating on the agent's browser Session: submitting its
\* prompt or polling the page.
OnSession(r) ==
    /\ path = "server"
    /\ \/ ipc[r] \in {"submit", "poll", "sendResp", "busy", "confirm"}
       \/ hpc[r] \in {"askWait", "askConfirm"}
       \/ hpc[r] = "process" /\ ~stream[r]

\* C2: API-server path, two requests to the same agent never operate on the
\* shared Session at the same time, streaming or not.
C2_AgentCyclesNeverOverlap ==
    \A r1, r2 \in Req : (OnSession(r1) /\ OnSession(r2)) => r1 = r2

\* C3: adapter path, after the request context is cancelled the stream
\* goroutine is never left holding the client mutex with nothing to wake it:
\* once the handler has returned on a disconnect, the goroutine is not
\* waiting in a callback send (which only the handler could receive) with
\* the mutex still held.
C3_CancelReleasesClientMutex ==
    \A r \in Req :
        (path = "adapter" /\ disconnected[r] /\ hpc[r] = "returned" /\ stream[r]
            /\ gpc[r] \in {"sendResp", "sendDone"})
        => mu[client[r]] # r

\* C4: ProcessCompletion returns and unlocks the agent mutex: a legacy
\* request never waits at ProcessChatCompletion's Lock for a mutex that it
\* holds itself (from which there is no return).
C4_ProcessCompletionReturns ==
    \A r \in Req :
        ~(path = "server" /\ kind[r] = "legacy" /\ hpc[r] = "agentLock"
          /\ agentMu["claude"] = r)

\* The lifecycle of a finished stream: role, content*, final, [DONE].
WellFormedStream(s) ==
    /\ Len(s) >= 3
    /\ s[1] = RoleChunk
    /\ \A i \in 2..(Len(s) - 2) : s[i][1] = "content"
    /\ s[Len(s) - 1] = FinalChunk
    /\ s[Len(s)] = DoneSentinel

\* The monitor of streaming request r finished (cleanly or by timeout), the
\* caller stayed connected and the handler has returned.
StreamFinished(r) ==
    /\ stream[r]
    /\ outcome[r] \in {"done", "timeout"}
    /\ ~disconnected[r]
    /\ hpc[r] = "returned"

\* C5: for every streaming response whose monitor finishes while the caller
\* stays connected, what was written is exactly one role chunk, content
\* chunks, one final chunk and the [DONE] sentinel, in this order.
C5_StreamLifecycle ==
    \A r \in Req : StreamFinished(r) => WellFormedStream(out[r])

\* C5 witness: a finished stream with a content chunk, ended by timeout.
C5_Witness ==
    \E r \in Req : StreamFinished(r) /\ outcome[r] = "timeout" /\ Len(out[r]) > 3

\* The concatenation of the content deltas of a written sequence.
RECURSIVE Deltas(_)
Deltas(s) ==
    IF s = <<>> THEN <<>>
    ELSE (IF Head(s)[1] = "content" THEN Head(s)[2] ELSE <<>>) \o Deltas(Tail(s))

\* C6: without divergence the content deltas delivered to the caller
\* concatenate to the last text the monitor read, the final extraction
\* included.
C6_DeltasRebuildLastText ==
    \A r \in Req :
        (StreamFinished(r) /\ outcome[r] = "done" /\ ~diverged[r])
        => Deltas(out[r]) = currentResponse[r]

\* The monitor of r is in its loop.
Monitoring(r) ==
    \/ gpc[r] \in {"poll", "sendResp", "busy", "confirm"} /\ path = "adapter"
    \/ ipc[r] \in {"poll", "sendResp", "busy", "confirm"}

\* The stream of r has been closed: final chunk, then [DONE].
Closed(r) ==
    /\ Len(out[r]) >= 2
    /\ out[r][Len(out[r]) - 1] = FinalChunk
    /\ out[r][Len(out[r])] = DoneSentinel

CallReturned(r) ==
    IF stream[r] THEN gpc[r] \in {"sendErr", "exit"} ELSE hpc[r] = "returned"

C9_DoneOnlyAfterTwoIdleReadings ==
    \A r \in Req :
        outcome[r] = "done" => (busy1[r] = "idle" /\ busy2[r] = "idle")

\* C10: a failed query of the busy indicator, on the first check or on the
\* confirmation check of a streaming monitor, is inconclusive: after it the
\* monitor has neither failed the request nor declared completion.
C10_BusyErrorIsInconclusive ==
    \A r \in Req :
        (stream[r] /\ (busy1[r] = "err" \/ busy2[r] = "err"))
        => outcome[r] \in {"none", "timeout", "cancelled"}

\* The content envelopes of a written sequence.
ContentEnvelopes(s) == {i \in 1..Len(s) : s[i][1] = "content"}

\* C11: no content envelope with empty content is ever written to the
\* caller, whatever texts the page shows (growing, unchanged, shrinking or
\* becoming empty).
C11_NoEmptyContentEnvelope ==
    \A r \in Req : \A i \in ContentEnvelopes(out[r]) : out[r][i][2] # <<>>

\* C12: the handler's step on a received text whose predecessor is not a
\* prefix of it (the text shrank or diverged) writes the whole new text as
\* the delta and makes it the diff baseline; in every case the delta is a
\* suffix of the new text.
ReceivesText(r) ==
    \/ path = "adapter" /\ gpc[r] = "sendResp" /\ gpc'[r] = "busy"
    \/ path = "server" /\ ipc[r] = "sendResp" /\ ipc'[r] = "busy"

DeltaSent(r) ==
    IF path = "adapter" THEN out'[r][Len(out'[r])] ELSE chunk'[r]

C12_DivergenceSendsWholeText ==
    [][\A r \in Req :
         ReceivesText(r) =>
            /\ lastContent'[r] = currentResponse[r]
            /\ DeltaSent(r)[1] = "content"
            /\ Len(DeltaSent(r)[2]) <= Len(currentResponse[r])
            /\ ~IsPrefix(lastContent[r], currentResponse[r])
                  => DeltaSent(r) = ContentChunk(currentResponse[r])]_vars

\* C12 witness: two content envelopes in a row where the second text does
\* not extend the first, the second delivered whole and now the baseline.
C12_Witness ==
    \E r \in Req : \E i \in ContentEnvelopes(out[r]) :
        /\ i + 1 \in ContentEnvelopes(out[r])
        /\ out[r][i][2] # <<>>
        /\ ~IsPrefix(out[r][i][2], out[r][i + 1][2])
        /\ lastContent[r] = out[r][i + 1][2]
        /\ diverged[r]

\* The envelopes written to the caller of r, as a set.
Written(r) == {out[r][i] : i \in 1..Len(out[r])}

\* C13: a stream that ended by timeout tells the caller so: its terminal
\* envelope is not the terminal envelope of a clean completion (finish reason
\* "stop"), or an error envelope is written.
C13_TimeoutIsToldToCaller ==
    \A r \in Req :
        (StreamFinished(r) /\ outcome[r] = "timeout")
        => (ErrorBody \in Written(r) \/ FinalChunk \notin Written(r))

\* C14: a streaming request whose client could not be initialised or whose
\* prompt could not be submitted has, once its handler has returned with the
\* caller connected, an error body in what was written to the caller.
C14_StreamingFailureIsSurfaced ==
    \A r \in Req :
        (stream[r] /\ hpc[r] = "returned" /\ ~disconnected[r]
            /\ (outcome[r] \in {"submitErr", "notInitialized"}
                    \/ browserManager[r] = "closed"))
        => ErrorBody \in Written(r)

\* Request r's call of getOrCreateClient failed in Initialize.
InitFailed(r) == browserManager[r] = "closed"

\* C15: every client in the pool has completed Initialize and has its
\* browser manager attached; a request whose initialisation failed got the
\* error, has no client and is not in the pool; and the step in which an
\* initialisation fails leaves the pool unchanged.
C15_PoolHoldsOnlyInitializedClients ==
    /\ [](\A k \in Keys :
            clientPool[k] # None => browserManager[clientPool[k]] = "attached")
    /\ [](\A r \in Req :
            InitFailed(r) => /\ client[r] = None
                             /\ \A k \in Keys : clientPool[k] # r
                             /\ out[r] = <<ErrorBody>>)
    /\ [][\A r \in Req :
            (~InitFailed(r) /\ InitFailed(r)') => clientPool' = clientPool]_vars

\* C15 witness: after a failed initialisation a later request with the same
\* key has initialised a client of its own, which is now the pooled one.
C15_Witness ==
    \E r, q \in Req :
        /\ InitFailed(r)
        /\ generateCookieKey(cookies[q]) = generateCookieKey(cookies[r])
        /\ client[q] = q
        /\ clientPool[generateCookieKey(cookies[q])] = q
        /\ browserManager[q] = "attached"

\* C16: at most one client is initialised for a key, and every request that
\* got a client got the pooled client of its key.
C16_OneClientPerKey ==
    /\ \A c, d \in Req :
         (browserManager[c] = "attached" /\ browserManager[d] = "attached"
             /\ generateCookieKey(loadedCookies[c]) = generateCookieKey(loadedCookies[d]))
         => c = d
    /\ \A r \in Req :
         client[r] # None => client[r] = clientPool[generateCookieKey(cookies[r])]

\* C16 witness: two requests with the same cookies hold the same client,
\* created by the first of them.
C16_Witness ==
    \E r, q \in Req :
        /\ r # q
        /\ cookies[r] = cookies[q]
        /\ client[r] = r
        /\ client[q] = r

RECURSIVE DeltaChunks(_)
DeltaChunks(s) ==
    IF s = <<>> THEN <<>>
    ELSE (CASE Head(s)[1] = "content" -> << <<Head(s)[2], FALSE>> >>
            [] Head(s)[1] = "final"   -> << <<(<<>>), TRUE>> >>
            [] OTHER                  -> <<>>) \o DeltaChunks(Tail(s))

\* The monitor of r observed exactly the scenario.
HelloScenario(r) == observed[r] = ScenarioObservations

\* C18: in the "Hello, world" scenario the delta chunks delivered are
\* ("Hello", false), (", wor", false), ("ld", true): the last suffix comes in
\* the chunk marked final, one chunk per distinct text.
C18_HelloWorldChunks ==
    \A r \in Req :
        (path = "adapter" /\ HelloScenario(r) /\ StreamFinished(r))
        => DeltaChunks(out[r]) = << <<(<<"Hello">>), FALSE>>,
                                    <<(<<", wor">>), FALSE>>,
                                    <<(<<"ld">>), TRUE>> >>

\* C19: a non-streaming request that ended by timeout was answered with a
\* body carrying the response text captured up to the deadline (beside the
\* timeout indication), not with an error alone.
C19_NonStreamingTimeoutKeepsText ==
    \A r \in Req :
        (~stream[r] /\ outcome[r] = "timeout" /\ hpc[r] = "returned")
        => \E e \in Written(r) : e[1] \in {"json", "text_completion"}

\* A message list without its assistant messages.
RECURSIVE WithoutAssistant(_)
WithoutAssistant(msgs) ==
    IF msgs = <<>> THEN <<>>
    ELSE (IF Head(msgs)[1] = "assistant" THEN <<>> ELSE <<Head(msgs)>>)
            \o WithoutAssistant(Tail(msgs))

\* The formatter named f, applied to msgs.
Apply(f, msgs) ==
    CASE f = "formatClaudePrompt" -> formatClaudePrompt(msgs)
      [] f = "formatPrompt"       -> formatPrompt(msgs)
      [] f = "formatMessages"     -> formatMessages(msgs)

\* s occurs in t as a subsequence (in order, not necessarily adjacent).
RECURSIVE IsSubsequence(_, _)
IsSubsequence(s, t) ==
    IF s = <<>> THEN TRUE
    ELSE IF t = <<>> THEN FALSE
    ELSE IF Head(s) = Head(t) THEN IsSubsequence(Tail(s), Tail(t))
    ELSE IsSubsequence(s, Tail(t))

\* C20: the prompt a formatter returned for a message list is the prompt it
\* returns for the list without its assistant messages, and the contents of
\* the user messages occur in it in their original order.
C20_AssistantMessagesDropped ==
    prompt # <<>> =>
        /\ prompt[2] = Apply(prompt[1], WithoutAssistant(messages))
        /\ IsSubsequence(Join(userPrompts(messages), <<>>), prompt[2])

\* The prompt of r's streaming request has been submitted to the page
\* without error: the goroutine that submits it is past the submission.
PromptSubmitted(r) ==
    IF path = "adapter"
    THEN /\ gpc[r] \notin {"none", "start", "locked"}
         /\ outcome[r] \notin {"notInitialized", "submitErr"}
    ELSE /\ ipc[r] \notin {"none", "submit"}
         /\ outcome[r] # "submitErr"

\* The monitor of r has produced a chunk: a changed text, or the terminal
\* one.
MonitorProduced(r) == nchanges[r] > 0 \/ outcome[r] \in {"done", "timeout"}

\* The role-announcement envelope has been written to r's caller.
RoleWritten(r) == \E i \in 1..Len(out[r]) : out[r][i] = RoleChunk

\* C22: in streaming mode the role envelope is written only once the prompt
\* has been submitted successfully and the monitor has produced its first
\* chunk.
C22_RoleEnvelopeAfterFirstChunk ==
    \A r \in Req :
        RoleWritten(r) => (PromptSubmitted(r) /\ MonitorProduced(r))

\* The goroutine started by the adapter's handleStreamingResponse waits in a
\* send on responseCh, doneCh or errCh; the channels are unbuffered and the
\* handler is their only receiver.
BlockedOnSend(r) == gpc[r] \in {"sendResp", "sendDone", "sendErr"}

\* C27: in the adapter, once the streaming handler has returned its
\* goroutine is not left waiting in a send on responseCh, doneCh or errCh,
\* which nobody will receive.
C27_GoroutineNotLeftBlocked ==
    \A r \in Req :
        (path = "adapter" /\ hpc[r] = "returned") => ~BlockedOnSend(r)

\* The server's inner monitoring goroutine waits in a send on responseCh,
\* doneCh or errCh, whose only receiver is the outer goroutine.
InnerBlockedOnSend(r) == ipc[r] \in {"sendResp", "sendDone", "sendErr"}

\* C28: in the API server, once the outer streaming goroutine has returned
\* the inner monitoring goroutine is not left waiting in a send on
\* responseCh, doneCh or errCh.
C28_InnerGoroutineNotLeftBlocked ==
    \A r \in Req :
        (path = "server" /\ gpc[r] = "exit") => ~InnerBlockedOnSend(r)

IsContent(e) == e[1] = "content"
NotDone(c) == ~c[2]

\* The callbacks of r's monitor with done=false (server: the sends on
\* responseCh), in order; each carries a text the monitor observed.
Updates(r) == SelectSeq(callbacks[r], NotDone)

\* The content envelopes written to r's caller, in order.
ContentsWritten(r) == SelectSeq(out[r], IsContent)

\* The delta the handler computes for the i-th text of us: what the text
\* adds to the one before (TrimPrefix against lastContent).
DeltaOf(us, i) == TrimPrefix(us[i][1], IF i = 1 THEN <<>> ELSE us[i - 1][1])

\* C23: within one streaming request the content envelopes written are, in
\* order and one for one, the deltas of the texts the monitor handed over
\* (none twice, none out of order), and the terminal chunk is written after
\* every content envelope, when every text handed over has been written.
C23_ChunksFollowObservations ==
    \A r \in Req :
        LET us == Updates(r)
            es == ContentsWritten(r)
        IN  /\ Len(es) <= Len(us)
            /\ \A i \in 1..Len(es) : es[i][2] = DeltaOf(us, i)
            /\ \A j \in 1..Len(out[r]) :
                 out[r][j] = FinalChunk =>
                    /\ Len(es) = Len(us)
                    /\ \A i \in ContentEnvelopes(out[r]) : i < j

\* C23 witness: a stream finished with two content envelopes, the second
\* text not an extension of the first.
C23_Witness ==
    \E r \in Req :
        /\ StreamFinished(r)
        /\ Len(ContentsWritten(r)) = 2
        /\ ~IsPrefix(Updates(r)[1][1], Updates(r)[2][1])

\* C25: no request fails because the Session's browser context expired on
\* its own while the server is running.
C25_SessionStaysUsable ==
    \A r \in Req : outcome[r] # "sessionExpired"

\* A request the server has taken in, and one that passed the checks made
\* before the model is looked at.
Received(r) == path = "server" /\ request[r] # NoRequest
WellFormed(r) == Received(r) /\ Validate(request[r]) = "ok"

\* Agent a has been entered for r: r holds or held its mutex.  The mutex is
\* taken first thing by every entry point, so r being past its lock position
\* with a as backend says the same.
AtAgent(r, a) ==
    \/ agentMu[a] = r
    \/ /\ backend[r] = a
       /\ hpc[r] \notin {"new", "agentLock", "legacyLock", "copilotLock"}

Invalid(rq) ==
    \/ rq.method # "POST"
    \/ ~rq.decodes
    \/ rq.empty
    \/ ~HasPrefix(rq.model, WebClaude) /\ ~HasPrefix(rq.model, WebCopilot)

\* The state requests share on the server and in the adapter.
shared == <<agentMu, sessionCtx, pools, mu>>

\* C30: the step in which a handler takes in a request it rejects writes one
\* 4xx answer, returns, and changes no agent mutex, no Session and nothing
\* else that requests share; the rejected request never holds an agent mutex
\* and starts no goroutine working on the Session.
C30_RejectionLeavesSharedState ==
    [][\A r \in Req :
        /\ (request[r] = NoRequest /\ Invalid(request'[r])
              /\ request'[r] # NoRequest) =>
             /\ out'[r] \in {<<HttpError("400")>>, <<HttpError("405")>>}
             /\ hpc'[r] = "returned"
             /\ UNCHANGED shared
        /\ (Received(r) /\ Invalid(request[r])) =>
             /\ \A a \in Agents : agentMu'[a] # r
             /\ gpc'[r] = None /\ ipc'[r] = None /\ outcome'[r] = None
             /\ out'[r] = out[r]]_vars

\* C30 witness: a well-formed request for an unsupported model has been
\* answered with 400.
C30_Witness ==
    \E r \in Req :
        /\ WellFormed(r)
        /\ request[r].model = <<"gpt-4">>
        /\ out[r] = <<HttpError("400")>>
        /\ hpc[r] = "returned"

\* A non-streaming request answered with the single JSON body.
BodyBuilt(r) ==
    /\ request[r] # NoRequest \/ path = "adapter"
    /\ ~stream[r]
    /\ outcome[r] = "done"
    /\ hpc[r] = "returned"

\* C24: when the single JSON body of a non-streaming response has been built,
\* the busy signal was read "not busy" twice in a row before the text was
\* extracted, on either backend.
C24_BodyAfterDoubleCheck ==
    \A r \in Req : BodyBuilt(r) => busy1[r] = "idle" /\ busy2[r] = "idle"

\* The positions in a callback log of the callbacks made with done = true.
DoneCalls(cb) == {i \in 1..Len(cb) : cb[i][2]}

\* C26: on a run of monitorResponseStream / monitorSuggestionStream a
\* done=true callback is the last callback of the run and there is at most
\* one; there is one exactly when the run has ended by timeout or by clean
\* completion, which is two readings "not busy" of the busy indicator and
\* never a failed reading; every done=false callback carries a text that
\* differs from the text of the callback before it.
C26_DoneCallbackOnceAndLast ==
    \A r \in Req : (path = "adapter" /\ stream[r]) =>
        LET cb == callbacks[r] IN
        /\ \A i \in DoneCalls(cb) : i = Len(cb)
        /\ DoneCalls(cb) # {} <=> outcome[r] \in {"done", "timeout"}
        /\ outcome[r] = "done" => busy1[r] = "idle" /\ busy2[r] = "idle"
        /\ \A i \in 1..Len(cb) :
             ~cb[i][2] => cb[i][1] # (IF i = 1 THEN <<>> ELSE cb[i - 1][1])

\* A request waiting in getOrCreateClient for a key that is in the pool.
PooledKeyWaits(r) ==
    /\ hpc[r] = "getClient"
    /\ clientPool[generateCookieKey(cookies[r])] # None

\* Request q is initialising a client for a key other than r's.
InitializesOtherKey(q, r) ==
    /\ hpc[q] = "initialize"
    /\ generateCookieKey(cookies[q]) # generateCookieKey(cookies[r])

\* C29: a request whose key is in the pool can take its client at once, also
\* while another request initialises a client for a different key.
C29_PooledKeyNotDelayed ==
    \A r, q \in Req :
        PooledKeyWaits(r) /\ InitializesOtherKey(q, r) =>
            ENABLED getOrCreateClient(r)

\* The positions of the system messages of a list, and the contents of its
\* user messages in their order.
SystemAt(msgs) == {i \in 1..Len(msgs) : msgs[i][1] = "system"}
UserContents(msgs) ==
    LET us == SelectSeq(msgs, LAMBDA m : m[1] = "user")
    IN  [i \in 1..Len(us) |-> us[i][2]]

\* The content of the last system message of a list that has one.
LastSystem(msgs) ==
    msgs[CHOOSE i \in SystemAt(msgs) : \A j \in SystemAt(msgs) : j <= i][2]

\* The positions of the label "System: " in a prompt.
SystemLabels(p) == {i \in 1..Len(p) : p[i] = "System: "}

\* C33: the prompt formatClaudePrompt / formatPrompt returns holds at most
\* one "System: " section; when it holds one, the section is at the start
\* and carries the content of the last system message of the list, and the
\* user contents joined by blank lines follow it; when it holds none (no
\* system message, or the last one is empty), the prompt is the user
\* contents joined by blank lines; without system and user messages the
\* prompt is empty.
C33_OneSystemSectionFirst ==
    (prompt # <<>> /\ prompt[1] \in {"formatClaudePrompt", "formatPrompt"}) =>
        LET p     == prompt[2]
            users == Join(UserContents(messages), <<"\n\n">>)
        IN  /\ Cardinality(SystemLabels(p)) <= 1
            /\ SystemLabels(p) # {} =>
                 /\ SystemAt(messages) # {}
                 /\ p = <<"System: ">> \o LastSystem(messages) \o <<"\n\n">>
                          \o users
            /\ SystemLabels(p) = {} =>
                 /\ SystemAt(messages) = {} \/ LastSystem(messages) = <<>>
                 /\ p = users
            /\ (\A i \in 1..Len(messages) : messages[i][1] = "assistant") =>
                 p = <<>>

\* C33 witness: a formatter got a list with two system messages of different
\* contents around a user message and returned a prompt that starts with the
\* section of the later one.
C33_Witness ==
    /\ prompt # <<>>
    /\ prompt[1] \in {"formatClaudePrompt", "formatPrompt"}
    /\ Len(messages) = 3
    /\ messages[1] = <<"system", <<"a">>>>
    /\ messages[2][1] = "user"
    /\ messages[3] = <<"system", <<"b">>>>
    /\ SubSeq(prompt[2], 1, 2) = <<"System: ", "b">>

---------------------------------------------------------------------------
(* The Copilot backend: from the request's text to the trigger of the       *)
(* suggestion.  This is the submission step of SendCodeContext,            *)
(* StreamSuggestion and SendCodeContextToCopilot, taken apart.              *)

\* What leaves the actions below alone.
notEditing ==
    <<path, load, messages, prompt, sessionCtx, pools, mu, agentMu, cookies,
      client, request, backend, hpc, gpc, ipc, disconnected, deadline,
      lastResponse, currentResponse, lastContent, chunk, out, outcome,
      ghosts>>

\* The request r arrives with its stream flag at endpoint k and the loop
\* over the lines has run; an empty language is replaced by the detected
\* one (in the extractors of the server, in the handlers of the adapter).
\* The server's non-streaming handlers go on to UseGitHubCopilot.
Extracted(r, k, st) ==
    /\ load = "language"
    /\ r \in Arrivals
    /\ cpc = "new"
    /\ stream' = [stream EXCEPT ![r] = st]
    /\ kind' = [kind EXCEPT ![r] = k]
    /\ LET res == languageLoop(content, Split(content)) IN
         /\ codeContext' = res[1]
         /\ language' = IF res[2] = <<>> THEN detectLanguage(res[1])
                        ELSE res[2]
    /\ cpc' = IF path = "server" /\ ~st THEN "use" ELSE "send"
    /\ UNCHANGED <<content, editor, langErr, notEditing>>

\* extractCodeContext of the CopilotAgent (chat completions) and of the
\* web_copilot adapter.
extractCodeContext(r) == \E st \in BOOLEAN : Extracted(r, "chat", st)

\* extractLanguageFromPrompt of the CopilotAgent (legacy completions).
extractLanguageFromPrompt(r) ==
    /\ path = "server"
    /\ \E st \in BOOLEAN : Extracted(r, "legacy", st)

\* handleNonStreamingChatCompletion / handleNonStreamingCompletion call
\* UseGitHubCopilot(codeContext) without the language: UseGitHubCopilot
\* detects it from the code.
UseGitHubCopilotDetects ==
    /\ cpc = "use"
    /\ language' = detectLanguage(codeContext)
    /\ cpc' = "send"
    /\ UNCHANGED <<content, codeContext, editor, langErr, stream, kind,
                   notEditing>>

\* The language step that returns the error of setEditorLanguage.
setEditorLanguage_Aborts ==
    /\ cpc = "send"
    /\ \/ /\ editor' = [editor EXCEPT
                          !.language = IF path = "adapter"
                                       THEN MonacoId(language) ELSE language]
          /\ cpc' = "focus"
          /\ UNCHANGED langErr
       \/ /\ langErr' = TRUE
          /\ cpc' = "languageErr"
          /\ UNCHANGED editor
    /\ UNCHANGED <<content, codeContext, language, stream, kind, notEditing>>

\* The head of SendCodeContext / StreamSuggestion / SendCodeContextToCopilot:
\* a language that is not empty is set in the editor; a failure is logged
\* and the function goes on.
setEditorLanguage ==
    /\ cpc = "send"
    /\ cpc' = "focus"
    /\ IF language = <<>>
       THEN UNCHANGED <<editor, langErr>>
       ELSE \/ /\ editor' = [editor EXCEPT
                               !.language = IF path = "adapter"
                                            THEN MonacoId(language)
                                            ELSE language]
               /\ UNCHANGED langErr
            \/ /\ langErr' = TRUE
               /\ UNCHANGED editor
    /\ UNCHANGED <<content, codeContext, language, stream, kind, notEditing>>

\* The rest of the submission: the editor is focused and cleared and the
\* code context is typed, then the suggestion is triggered; each of the two
\* parts may fail and end the request with its error.
typeCodeContext ==
    /\ cpc = "focus"
    /\ \/ /\ cpc' = "inputErr"
          /\ UNCHANGED editor
       \/ /\ cpc' = "triggerErr"
          /\ editor' = [editor EXCEPT !.text = codeContext]
       \/ /\ cpc' = "triggered"
          /\ editor' = [editor EXCEPT !.text = codeContext,
                                      !.triggered = TRUE]
    /\ UNCHANGED <<content, codeContext, language, langErr, stream, kind,
                   notEditing>>

NextLanguage ==
    \/ \E r \in Req : extractCodeContext(r)
    \/ \E r \in Req : extractLanguageFromPrompt(r)
    \/ UseGitHubCopilotDetects
    \/ setEditorLanguage
    \/ typeCodeContext

\* One Copilot request, from its text to the trigger of the suggestion.
SpecLanguage == InitLanguage /\ [][NextLanguage]_vars

\* A language line: trimmed, it starts with "language:" in either case.
IsLanguageLine(l) ==
    TrimSpace(l) # <<>> /\ LowerPiece(TrimSpace(l)[1]) = "language:"

\* The positions of the language lines of a text, the first of them and
\* the language it names (<<>> when no name follows the colon).
LanguageLines(text) ==
    {i \in 1..Len(Split(text)) : IsLanguageLine(Split(text)[i])}
FirstLanguageLine(text) ==
    CHOOSE i \in LanguageLines(text) : \A j \in LanguageLines(text) : i <= j
NamedLanguage(text) ==
    TrimSpace(Tail(TrimSpace(Split(text)[FirstLanguageLine(text)])))

\* The text has a language line and the first one names a language.
NamesLanguage(text) ==
    LanguageLines(text) # {} /\ NamedLanguage(text) # <<>>

\* The lines of a text, each trimmed, with line i left out or left empty.
TrimmedLines(text) == [i \in 1..Len(Split(text)) |-> TrimSpace(Split(text)[i])]
WithoutLine(ls, i) == SubSeq(ls, 1, i - 1) \o SubSeq(ls, i + 1, Len(ls))
WithLineEmptied(ls, i) == [ls EXCEPT ![i] = <<>>]

\* The language step of the submission has set the editor's language.
LanguageSet ==
    cpc \in {"focus", "inputErr", "triggerErr", "triggered"} /\ ~langErr

\* C31: when the request's text has a language line (the first one, if
\* several) that names a language, the editor's language is the one named,
\* whether the request streams or not, and the text typed into the editor
\* is the request's text without that line; when the text has no language
\* line, the editor's language is the one detected from the text.
C31_NamedLanguageIsSet ==
    /\ (LanguageSet /\ NamesLanguage(content)) =>
          editor.language = NamedLanguage(content)
    /\ (cpc = "triggered" /\ NamesLanguage(content)) =>
          TrimmedLines(editor.text) \in
             { WithoutLine(TrimmedLines(content), FirstLanguageLine(content)),
               WithLineEmptied(TrimmedLines(content),
                               FirstLanguageLine(content)) }
    /\ (LanguageSet /\ LanguageLines(content) = {}) =>
          editor.language = detectLanguage(content)

\* C32: the language step of the submission always goes on to the focusing
\* of the editor and leaves the code context and the editor's text alone,
\* whether setting the language failed or not; from there the submission
\* ends as it does after a language that was set: with the code context
\* typed and the suggestion triggered, or with the error of the typing or of
\* the trigger, never with an error of the language step.
C32_LanguageFailureGoesOn ==
    [][/\ cpc = "send" =>
            /\ cpc' = "focus"
            /\ codeContext' = codeContext
            /\ editor'.text = editor.text
       /\ cpc = "focus" =>
            /\ cpc' \in {"inputErr", "triggerErr", "triggered"}
            /\ cpc' = "triggered" =>
                  editor'.text = codeContext /\ editor'.triggered
            /\ langErr' = langErr]_vars

\* C32 witness: setting the language has failed and the code context was
\* typed and the suggestion triggered all the same.
C32_Witness ==
    /\ langErr
    /\ cpc = "triggered"
    /\ editor.text = codeContext
    /\ editor.triggered
    /\ editor.language = <<"plaintext">>

=============================================================================
